---- MODULE Spec2Model ----
(***************************************************************************)
(* Model of hoozin (src/src/App.tsx): the TTL response cache kept in       *)
(* localStorage (cacheFetch, purgeCache, fetchWithCache), the per-day      *)
(* location state reducer (stateReducer), the working-day window, the      *)
(* ingestion passes (fetchHoozinData, fetchWazzupData), the settings       *)
(* dialog of Hoozin, and the earlier fetchWithCache of                     *)
(* src/unnamed/part_000.                                                   *)
(*                                                                         *)
(* Time is the reading of Temporal.Now.plainDateTimeISO() in minutes.      *)
(* A stored string is modelled by the shape cacheFetch and purgeCache can  *)
(* tell apart when they parse it, plus the fields they read from it.       *)
(***************************************************************************)
EXTENDS Integers, Sequences, FiniteSets, TLC

\* ---------------------------------------------------------------- bounds
MaxTime == 2          \* the wall clock runs over 0..MaxTime
MaxPurges == 1        \* purgeCache runs in one behaviour
MaxOtherWrites == 1   \* completions of calls that are not followed, in one behaviour
MaxActions == 2       \* actions dispatched to the reducer in one behaviour
MaxDay == 3           \* working-location events start within Calendar[1..MaxDay]
MaxToday == 21        \* today is one of the days 1..MaxToday
MaxRooms == 3         \* resource calendars in one calendarList response
MaxPeople == 2        \* entries in one people-directory response
MaxItems == 2         \* items in one calendar response
MaxRunPeople == 1     \* entries in a directory response of overlapping runs
MaxRunItems == 1      \* items in a calendar response of overlapping runs
MaxPasses == 2        \* room passes in one behaviour

\* ------------------------------------------------------ program constants
TTL == 2              \* { ttl: { minutes: 5 } }, in clock steps of 2.5 minutes
WindowSize == 5       \* while (days.length < 5)
Week == 4032          \* .add({ weeks: 1 }), in clock steps of 2.5 minutes
Hour == 24            \* .with({ minute: 0, second: 0, millisecond: 0 }): one hour in clock steps

\* ------------------------------------------------------------ the store
CacheKeys == {"k1", "k2"}      \* digestMessage(url + "V2") of two URLs
SettingKeys == {"googleToken", "loginHint", "ignorePeople", "preferredLocation"}
Keys == CacheKeys \cup SettingKeys
\* digestMessage(url + "V1") of two URLs, the keys of the earlier fetchWithCache
LegacyCacheKeys == {"v1k1", "v1k2"}

\* Payloads: "d0" was stored by an earlier session, "dx" is what another
\* session stores, "r1", "r2", ... is the body of the response to call 1, 2, ...
\* (every response differs from every other payload), "e1", "e2", ... the body
\* of a response that is not a success.
Body(c, status) == (IF status = 200 THEN "r" ELSE "e") \o ToString(c)

\* localStorage.getItem(key) === null
Absent == [shape |-> "absent", expiresAt |-> 0, data |-> "none"]
\* the string JSON.stringify({expiresAt, data})
Entry(e, d) == [shape |-> "entry", expiresAt |-> e, data |-> d]
\* a string of another shape:
\*   "empty"      the empty string
\*   "notjson"    not valid JSON (a bare word such as homeOffice or an email)
\*   "nonobject"  JSON null, number, string or boolean
\*   "noexpires"  a JSON object or array without an expiresAt member
\*   "badexpires" an object whose expiresAt Temporal.PlainDateTime.from rejects
\*   "nodata"     an object with a valid expiresAt and no data member
Other(s, d) == [shape |-> s, expiresAt |-> 0, data |-> d]
NoData(e) == [shape |-> "nodata", expiresAt |-> e, data |-> "none"]

VARIABLES
  store,        \* localStorage: key -> stored string (Absent when not present)
  now,          \* wall clock
  token,        \* GoogleTokenProvider's token state: "tok" or "null"
  calls,        \* the cacheFetch calls of this session, by call number
  purgeLog,     \* one record per completed purgeCache run
  otherWrites,  \* number of OtherCall steps so far
  state,        \* the reducer's current State
  prior,        \* the State value the reducer was last given, as it is now
  lastAction,   \* the last action dispatched to the reducer
  nActions,     \* number of actions dispatched
  reducerError, \* the error the last reducer application raised, or "none"
  today,        \* Temporal.Now.plainDateISO() when Hoozin builds its window
  days,         \* the days array of Hoozin's useMemo
  wpc,          \* position in the window computation
  calendars,    \* summaries of the resource calendars of the calendarList response, in order
  rooms,        \* the rooms array of fetchWazzupData
  rpc,          \* position in fetchWazzupData
  pass,         \* fetchHoozinData: position, loop indices, the people and items it iterates
  requests,     \* the upstream requests the pass has issued, in order
  inflight,     \* number of requests of the pass that have no answer yet
  responses,    \* the calendar responses the pass has received, in order
  dispatched,   \* the actions the pass has dispatched, in order
  failures,     \* number of calls of the pass that failed
  kcalls,       \* two fetchWithCache calls: position, URL given, URL string, cache key
  keyStore,     \* the cache entries in localStorage: key and the call that wrote it
  v1store,      \* localStorage as the earlier fetchWithCache uses it: key -> stored string
  v1token,      \* the token state of the earlier GoogleTokenProvider
  v1calls,      \* the calls of the earlier fetchWithCache, by call number
  runs,         \* overlapping runs of fetchHoozinData on one reducer, by run number
  wnow,         \* wall clock of the room passes
  wstore,       \* the cache entries the room passes read and write: key and stored entry
  wcalendars,   \* ids of the calendars of the calendarList response, in order
  wpass,        \* fetchWazzupData: position, number of the pass, loop index
  wnet,         \* the upstream network invocations of the room passes, in order
  showSettings  \* Hoozin's showSettings state: the settings dialog is open

cacheVars == <<store, now, token, calls, purgeLog, otherWrites>>
reducerVars == <<state, prior, lastAction, nActions, reducerError>>
windowVars == <<today, days, wpc>>
roomVars == <<calendars, rooms, rpc>>
ingestVars == <<pass, requests, inflight, responses, dispatched, failures>>
keyVars == <<kcalls, keyStore>>
appVars == <<v1store, v1token, v1calls, runs, wnow, wstore, wcalendars, wpass, wnet, showSettings>>
pipelineVars == <<windowVars, roomVars, ingestVars, keyVars, appVars>>
vars == <<store, now, token, calls, purgeLog, otherWrites, state, prior, lastAction, nActions, reducerError,
          pipelineVars>>

\* The two cacheFetch calls of this session that are followed step by step.
\* What any further call, of this or of another session, does to the store is
\* the action OtherCall.
CallIds == {1, 2}

\* ----------------------------------------------- parsing a stored string
\* `if (cached)`: null and "" are falsy
Truthy(v) == v.shape \notin {"absent", "empty"}
\* JSON.parse(cached) returns (does not throw SyntaxError)
JSONParses(v) == v.shape \notin {"empty", "notjson"}
\* data && typeof data === "object" && "expiresAt" in data
HasExpiresAt(v) == v.shape \in {"badexpires", "nodata", "entry"}
\* Temporal.PlainDateTime.from(expiresAt) returns (does not throw)
ExpiresAtParses(v) == v.shape \in {"nodata", "entry"}
\* "data" in data
HasData(v) == v.shape = "entry"


\* ------------------------------------------------------------ cacheFetch
\* Temporal.PlainDateTime.compare(now, expiresAt) < 0
FreshAt_inclusive(t, e) == t <= e
FreshAt_swapped(t, e) == e < t
FreshAt(t, e) == t < e

\* The synchronous lookup of cacheFetch, up to `await fetcher()`:
\* "hit" returns data.data, "miss" goes on to the fetcher, an error name is
\* an exception no handler of cacheFetch catches.
cacheFetchLookup(v, t) ==
  IF ~Truthy(v) THEN "miss"
  ELSE IF ~JSONParses(v) THEN "SyntaxError"
  ELSE IF ~HasExpiresAt(v) THEN "miss"
  ELSE IF ~ExpiresAtParses(v) THEN "RangeError"
  ELSE IF FreshAt(t, v.expiresAt)
       THEN (IF HasData(v) THEN "hit" ELSE "miss")
       ELSE "miss"

\* data.data of a hit
HitData(v) == v.data

\* JSON.stringify({ expiresAt: now.add(ttl).toString(), data })
NewEntry_nottl(t, ttl, d) == Entry(t, d)
NewEntry(t, ttl, d) == Entry(t + ttl, d)

\* localStorage.setItem(key, value) that returns: the value under key is replaced
SetItem_keepfirst(st, k, v) == IF st[k].shape = "entry" THEN st ELSE [st EXCEPT ![k] = v]
SetItem(st, k, v) == [st EXCEPT ![k] = v]

\* the catch block of the write: TRUE when the error is swallowed
IsQuotaError_any(err) == TRUE
IsQuotaError(err) == err = "QuotaExceededError"

\* the store after the quota branch: clear(), then preferredLocation is put
\* back when its old value is truthy
QuotaRecovery_norestore(st) == [k \in Keys |-> Absent]
QuotaRecovery_keepsettings(st) == [k \in Keys |-> IF k \in SettingKeys THEN st[k] ELSE Absent]
QuotaRecovery(st) ==
  [k \in Keys |->
     IF k = "preferredLocation" /\ Truthy(st["preferredLocation"])
     THEN st["preferredLocation"]
     ELSE Absent]

\* the fetcher fetchWithCache hands to cacheFetch: response.json() first,
\* then the 401 check
FetcherResult(status, jsonOk) ==
  IF ~jsonOk THEN "SyntaxError"
  ELSE IF status = 401 THEN "Unauthorized"
  ELSE "data"

Statuses == {200, 401, 500}
WriteOutcomes == {"ok", "QuotaExceededError", "SecurityError"}

\* A cacheFetch call: where it is (pc), the stored string its lookup read
\* (lookup), whether that string was an entry already expired on the clock
\* of the lookup (stale), the number of fetcher invocations (fetches), how it
\* ended (outcome, error, result), the HTTP status it was answered with, the
\* outcome of its setItem (write) and the expiresAt of the entry it returned
\* from or wrote (window).
IdleCall ==
  [status |-> 0, pc |-> "idle", key |-> "none", lookup |-> Absent, stale |-> FALSE,
   fetches |-> 0, outcome |-> "none", error |-> "none", result |-> "none",
   write |-> "none", window |-> 0]

Done(c) == calls[c].pc = "done"

\* fetchWithCache(url) up to the first await of cacheFetch: the lookup
CacheFetchCall(c, k) ==
  /\ calls[c].pc = "idle"
  /\ \A c2 \in CallIds : c2 < c => calls[c2].pc # "idle"
  /\ token # "null"
  /\ LET v == store[k]
         r == cacheFetchLookup(v, now)
         started == [IdleCall EXCEPT !.key = k, !.lookup = v,
                       !.stale = (v.shape \in {"nodata", "entry"} /\ now >= v.expiresAt)]
     IN calls' = [calls EXCEPT ![c] =
          CASE r = "hit" ->
                 [started EXCEPT !.pc = "done", !.outcome = "returned",
                                 !.result = HitData(v), !.window = v.expiresAt]
            [] r = "miss" ->
                 [started EXCEPT !.pc = "fetching", !.fetches = 1]
            [] OTHER ->
                 [started EXCEPT !.pc = "done", !.outcome = "threw", !.error = r]]
  /\ UNCHANGED <<store, now, token, purgeLog, otherWrites, reducerVars, pipelineVars>>

\* the upstream answers call c: the rest of the fetcher, then the write
FetchResponse(c, status, jsonOk, wr) ==
  /\ calls[c].pc = "fetching"
  /\ LET k == calls[c].key
         body == Body(c, status)
         f == FetcherResult(status, jsonOk)
         answered == [calls[c] EXCEPT !.pc = "done", !.status = status]
     IN CASE f = "SyntaxError" ->
               /\ calls' = [calls EXCEPT ![c] =
                    [answered EXCEPT !.outcome = "threw", !.error = f]]
               /\ UNCHANGED <<store, token>>
          [] f = "Unauthorized" ->
               /\ token' = "null"
               /\ store' = [store EXCEPT !["googleToken"] = Absent]
               /\ calls' = [calls EXCEPT ![c] =
                    [answered EXCEPT !.outcome = "threw", !.error = f]]
          [] OTHER ->
               /\ UNCHANGED token
               /\ CASE wr = "ok" ->
                         /\ store' = SetItem(store, k, NewEntry(now, TTL, body))
                         /\ calls' = [calls EXCEPT ![c] =
                              [answered EXCEPT !.outcome = "returned", !.result = body,
                                               !.write = wr, !.window = now + TTL]]
                    [] wr # "ok" /\ IsQuotaError(wr) ->
                         /\ store' = QuotaRecovery(store)
                         /\ calls' = [calls EXCEPT ![c] =
                              [answered EXCEPT !.outcome = "returned", !.result = body,
                                               !.write = wr, !.window = now + TTL]]
                    [] OTHER ->
                         /\ UNCHANGED store
                         /\ calls' = [calls EXCEPT ![c] =
                              [answered EXCEPT !.outcome = "threw", !.error = wr,
                                               !.write = wr]]
  /\ UNCHANGED <<now, purgeLog, otherWrites, reducerVars, pipelineVars>>

\* fetch() itself rejects (no response): the fetcher and cacheFetch reject
FetchNetworkError(c) ==
  /\ calls[c].pc = "fetching"
  /\ calls' = [calls EXCEPT ![c] =
       [@ EXCEPT !.pc = "done", !.outcome = "threw", !.error = "NetworkError"]]
  /\ UNCHANGED <<store, now, token, purgeLog, otherWrites, reducerVars, pipelineVars>>

\* ------------------------------------------------------------ purgeCache
\* Temporal.PlainDateTime.compare(now, expiresAt) >= 0
Expired_strict(t, e) == t > e
Expired(t, e) == t >= e

\* the body of the try block for one key
PurgeScan(v, t) ==
  IF ~JSONParses(v) THEN "SyntaxError"
  ELSE IF ~HasExpiresAt(v) THEN "keep"
  ELSE IF ~ExpiresAtParses(v) THEN "RangeError"
  ELSE IF Expired(t, v.expiresAt) THEN "remove" ELSE "keep"

\* try { ... } catch { /* Ignore invalid JSON */ }
PurgeCatch_rethrow(r) == r
PurgeCatch(r) == IF r \in {"SyntaxError", "RangeError"} THEN "keep" ELSE r

PurgeVerdict(v, t) == PurgeCatch(PurgeScan(v, t))

\* purgeCache(): the scan of every key, then the removals. It runs when the
\* module is loaded, before any component can call cacheFetch. The scan is
\* synchronous; its clock readings are taken as one instant.
purgeCache ==
  /\ Len(purgeLog) < MaxPurges
  /\ \A c \in CallIds : calls[c].pc = "idle"
  /\ LET present == {k \in Keys : store[k] # Absent}
         raised == {k \in present : PurgeVerdict(store[k], now) \notin {"keep", "remove"}}
         keysToRemove == {k \in present : PurgeVerdict(store[k], now) = "remove"}
     IN IF raised # {}
        THEN /\ purgeLog' = Append(purgeLog,
                  [time |-> now, removed |-> {}, threw |-> TRUE])
             /\ UNCHANGED store
        ELSE /\ purgeLog' = Append(purgeLog,
                  [time |-> now, removed |-> keysToRemove, threw |-> FALSE])
             /\ store' = [k \in Keys |-> IF k \in keysToRemove THEN Absent ELSE store[k]]
  /\ UNCHANGED <<now, token, calls, otherWrites, reducerVars, pipelineVars>>

\* ----------------------------------------------------------- environment
Tick ==
  /\ now < MaxTime
  /\ now' = now + 1
  /\ UNCHANGED <<store, token, calls, purgeLog, otherWrites, reducerVars, pipelineVars>>

\* A cacheFetch call that is not followed (another tab of the application, or
\* a further call of this session) completes its write: the entry is stored,
\* or the write hits the quota and the store is cleared.
OtherCall(k, wr) ==
  /\ otherWrites < MaxOtherWrites
  /\ otherWrites' = otherWrites + 1
  /\ store' = IF IsQuotaError(wr) THEN QuotaRecovery(store)
              ELSE [store EXCEPT ![k] = NewEntry(now, TTL, "dx")]
  /\ UNCHANGED <<now, token, calls, purgeLog, reducerVars, pipelineVars>>

\* ------------------------------------------------------- initial states
\* what earlier sessions may have left under a cache key
InitCacheValues ==
  {Absent, Other("notjson", "none"), Other("noexpires", "none"),
   Other("badexpires", "none"), NoData(TTL), Entry(1, "d0")}

WorkLocations == {"homeOffice", "officeLocation", "unknown"}

\* workLocation(localStorage.getItem("preferredLocation"))
workLocation(value) ==
  IF value \in {"homeOffice", "officeLocation", "unknown"} THEN value ELSE "unknown"

EmptyState(ignored, assumed) ==
  [people |-> <<>>, ignorePeople |-> ignored, assumedLocation |-> assumed, events |-> <<>>]

NoAction == [type |-> "none"]

\* the window is not being computed
InitWindowIdle ==
  /\ today = 1
  /\ days = <<>>
  /\ wpc = "idle"

\* fetchWazzupData is not running
InitRoomsIdle ==
  /\ calendars = <<>>
  /\ rooms = <<>>
  /\ rpc = "idle"

\* no ingestion pass is running
InitIngestIdle ==
  /\ pass = [pc |-> "idle", error |-> "none", people |-> <<>>, i |-> 0, j |-> 0, items |-> <<>>]
  /\ requests = <<>>
  /\ inflight = 0
  /\ responses = <<>>
  /\ dispatched = <<>>
  /\ failures = 0

\* no fetchWithCache call is followed for its key
InitKeysIdle ==
  /\ kcalls = <<>>
  /\ keyStore = {}

\* What the rest of the application starts from: the store the earlier
\* fetchWithCache finds (a value cached for one URL, none for the other, the
\* credential) and its calls not started, two runs of fetchHoozinData about
\* to ask for the directory, no room pass yet, the settings dialog closed.
InitAppIdle ==
  /\ v1store = [k \in LegacyCacheKeys \cup {"googleToken"} |->
                  CASE k = "v1k1" -> "d0"
                    [] k = "v1k2" -> "absent"
                    [] k = "googleToken" -> "tok"]
  /\ v1token = "tok"
  /\ v1calls = [c \in CallIds |->
                  [status |-> 0, pc |-> "idle", key |-> "none", outcome |-> "none",
                   error |-> "none", result |-> "none"]]
  /\ runs = [r \in {1, 2} |-> [pc |-> "start", people |-> <<>>, i |-> 0, j |-> 0, items |-> <<>>]]
  /\ wnow = 0
  /\ wstore = {}
  /\ wcalendars = <<>>
  /\ wpass = [pc |-> "off", n |-> 0, idx |-> 0]
  /\ wnet = <<>>
  /\ showSettings = FALSE

InitPipelineIdle ==
  InitWindowIdle /\ InitRoomsIdle /\ InitIngestIdle /\ InitKeysIdle /\ InitAppIdle

InitReducerIdle ==
  /\ state = EmptyState({}, "unknown")
  /\ prior = state
  /\ lastAction = NoAction
  /\ nActions = 0
  /\ reducerError = "none"

InitCache ==
  /\ now = 0
  /\ token = "tok"
  /\ calls = [c \in CallIds |-> IdleCall]
  /\ purgeLog = <<>>
  /\ otherWrites = 0
  /\ \E v1 \in InitCacheValues, v2 \in {Other("nonobject", "none")},
        pl \in {Absent, Other("notjson", "homeOffice")} :
       store = [k \in Keys |->
          CASE k = "k1" -> v1
            [] k = "k2" -> v2
            [] k = "googleToken" -> Other("noexpires", "tok")
            [] k = "loginHint" -> Other("notjson", "hint")
            [] k = "ignorePeople" -> Other("noexpires", "ignoreList")
            [] k = "preferredLocation" -> pl]
  /\ InitReducerIdle
  /\ InitPipelineIdle

NextCache ==
  \/ \E c \in CallIds, k \in CacheKeys : CacheFetchCall(c, k)
  \/ \E c \in CallIds, status \in Statuses, jsonOk \in BOOLEAN, wr \in WriteOutcomes :
       FetchResponse(c, status, jsonOk, wr)
  \/ \E c \in CallIds : FetchNetworkError(c)
  \/ purgeCache
  \/ Tick
  \/ \E k \in CacheKeys, wr \in {"ok", "QuotaExceededError"} : OtherCall(k, wr)

SpecCache == InitCache /\ [][NextCache]_vars

\* ---------------------------------------------------------- stateReducer
Emails == {"a@x", "b@x"}
Names == {"Ann", "Bo"}

\* ISO calendar dates, consecutive; 2024-01-01 is a Monday. A
\* Temporal.PlainDate is the index of its date in Calendar.
Calendar ==
  <<"2024-01-01", "2024-01-02", "2024-01-03", "2024-01-04",
    "2024-01-05", "2024-01-06", "2024-01-07", "2024-01-08">>

\* Temporal.PlainDate.from(string)
PlainDateFrom(str) == CHOOSE i \in 1..Len(Calendar) : Calendar[i] = str
\* plainDate.toString()
PlainDateToString(i) == Calendar[i]

\* what workingLocationProperties can be in a workingLocation event: an object
\* with a type, an object without a type ("noType"), or not there ("missing")
LocationPayloads == {"officeLocation", "homeOffice", "customLocation", "noType", "missing"}

WorkingLocationEvent(start, end, wlp) ==
  [start |-> start, end |-> end, wlp |-> wlp, eventType |-> "workingLocation"]
\* outOfOffice and default events carry start.dateTime and end.dateTime
OtherEvent(eventType) ==
  [start |-> "dateTime", end |-> "dateTime", wlp |-> "missing", eventType |-> eventType]

\* newEvents.find(entry => entry.date === dateString && entry.personEmail === email):
\* the index of the first such entry, 0 when there is none
FindEntry_none(evs, dateString, email) == 0
FindEntry(evs, dateString, email) ==
  LET I == {i \in 1..Len(evs) : evs[i].date = dateString /\ evs[i].personEmail = email}
  IN IF I = {} THEN 0 ELSE CHOOSE i \in I : \A j \in I : i <= j

\* workingLocationProperties.type ?? "unknown"
StatusOf(wlp) == IF wlp = "noType" THEN "unknown" ELSE wlp

\* Temporal.PlainDate.compare(currentDate, endDate) < 0
BeforeEnd_inclusive(cur, end) == cur <= end
BeforeEnd(cur, end) == cur < end

\* the while loop of ADD_PERSON_EVENT over newEvents
RECURSIVE ExpandEvent_keepfound(_, _, _, _, _)
ExpandEvent_keepfound(evs, cur, end, email, wlp) ==
  IF BeforeEnd(cur, end)
  THEN ExpandEvent_keepfound(
         IF FindEntry(evs, PlainDateToString(cur), email) > 0
         THEN evs
         ELSE Append(evs, [date |-> PlainDateToString(cur), personEmail |-> email,
                           location |-> StatusOf(wlp)]),
         cur + 1, end, email, wlp)
  ELSE evs
RECURSIVE ExpandEvent(_, _, _, _, _)
ExpandEvent(evs, cur, end, email, wlp) ==
  IF BeforeEnd(cur, end)
  THEN LET dateString == PlainDateToString(cur)
           i == FindEntry(evs, dateString, email)
           status == StatusOf(wlp)
       IN ExpandEvent(
            IF i > 0
            THEN [evs EXCEPT ![i].location = status]
            ELSE Append(evs, [date |-> dateString, personEmail |-> email, location |-> status]),
            cur + 1, end, email, wlp)
  ELSE evs

\* the reducer raises TypeError: workingLocationProperties is undefined and the
\* loop body reads its type
ReducerThrows(a) ==
  /\ a.type = "ADD_PERSON_EVENT"
  /\ a.calendarEvent.eventType = "workingLocation"
  /\ a.calendarEvent.wlp = "missing"
  /\ BeforeEnd(PlainDateFrom(a.calendarEvent.start), PlainDateFrom(a.calendarEvent.end))

\* the else branch of ADD_PERSON_EVENT: `return currentState`
OtherKind_reset(currentState) == [currentState EXCEPT !.assumedLocation = "unknown"]
OtherKind(currentState) == currentState

\* currentState.people.findIndex((p) => p.email === action.email) > -1
HasPerson_gt0(people, email) == \E i \in 2..Len(people) : people[i].email = email
HasPerson(people, email) == \E i \in 1..Len(people) : people[i].email = email

\* new Set(newIgnoreList) of UPDATE_IGNORE_STATE
NewIgnoreList_naive(ignorePeople, email, ignored) ==
  IF ignored THEN ignorePeople \cup {email} ELSE ignorePeople \ {email}
NewIgnoreList(ignorePeople, email, ignored) ==
  IF ignored THEN ignorePeople \ {email} ELSE ignorePeople \cup {email}

\* the State UPDATE_PREFERRED_LOCATION returns
WithAssumedLocation_reset(currentState, location) ==
  [currentState EXCEPT !.assumedLocation = location, !.ignorePeople = {}]
WithAssumedLocation(currentState, location) ==
  [currentState EXCEPT !.assumedLocation = location]

\* stateReducer(currentState, action), when it returns
stateReducer(currentState, a) ==
  CASE a.type = "ADD_PERSON_EVENT" ->
         IF a.calendarEvent.eventType = "workingLocation"
         THEN [currentState EXCEPT !.events =
                 ExpandEvent(currentState.events,
                             PlainDateFrom(a.calendarEvent.start),
                             PlainDateFrom(a.calendarEvent.end),
                             a.email, a.calendarEvent.wlp)]
         ELSE OtherKind(currentState)
    [] a.type = "DISCOVERED_PERSON" ->
         IF HasPerson(currentState.people, a.email)
         THEN currentState
         ELSE [currentState EXCEPT !.people =
                 Append(currentState.people, [email |-> a.email, name |-> a.name])]
    [] a.type = "UPDATE_PREFERRED_LOCATION" ->
         WithAssumedLocation(currentState, a.location)
    [] a.type = "UPDATE_IGNORE_STATE" ->
         [currentState EXCEPT !.ignorePeople = NewIgnoreList(@, a.email, a.ignored)]
    [] OTHER -> currentState

\* The State value the reducer was given, after the call: newEvents is a
\* shallow copy, so an entry found and assigned to is the prior State's own.
PriorAfter(currentState, newState) ==
  [currentState EXCEPT !.events = SubSeq(newState.events, 1, Len(currentState.events))]

\* dispatch(a): React applies the reducer and keeps the State it returns
ReducerStep(a) ==
  /\ nActions' = nActions + 1
  /\ lastAction' = a
  /\ IF ReducerThrows(a)
     THEN /\ reducerError' = "TypeError"
          /\ prior' = state
          /\ UNCHANGED state
     ELSE /\ reducerError' = "none"
          /\ state' = stateReducer(state, a)
          /\ prior' = PriorAfter(state, state')

\* an action dispatched by the user interface or by a caller outside a pass
Dispatch(a) ==
  /\ nActions < MaxActions
  /\ ReducerStep(a)
  /\ UNCHANGED <<cacheVars, pipelineVars>>

AddPersonEvent(email, calendarEvent) ==
  Dispatch([type |-> "ADD_PERSON_EVENT", email |-> email, calendarEvent |-> calendarEvent])

DiscoveredPerson(email, name) ==
  Dispatch([type |-> "DISCOVERED_PERSON", email |-> email, name |-> name])

UpdatePreferredLocation(location) ==
  Dispatch([type |-> "UPDATE_PREFERRED_LOCATION", location |-> location])

UpdateIgnoreState(email, ignored) ==
  Dispatch([ignored |-> ignored, type |-> "UPDATE_IGNORE_STATE", email |-> email])

InitCacheIdle ==
  /\ now = 0
  /\ token = "tok"
  /\ calls = [c \in CallIds |-> IdleCall]
  /\ purgeLog = <<>>
  /\ otherWrites = 0
  /\ store = [k \in Keys |->
        CASE k = "googleToken" -> Other("noexpires", "tok")
          [] k = "loginHint" -> Other("notjson", "hint")
          [] OTHER -> Absent]

\* useReducer(stateReducer, { events: [], ignorePeople: ignorePeople(...),
\* assumedLocation: workLocation(...), people: [] })
InitReducer ==
  /\ InitCacheIdle
  /\ \E ignored \in {{}, {"a@x"}}, pl \in {"null", "homeOffice"} :
       state = EmptyState(ignored, workLocation(pl))
  /\ prior = state
  /\ lastAction = NoAction
  /\ nActions = 0
  /\ reducerError = "none"
  /\ InitPipelineIdle

NextReducer ==
  \/ \E email \in Emails, start \in 1..MaxDay, end \in 1..(MaxDay + 1), wlp \in LocationPayloads :
       AddPersonEvent(email, WorkingLocationEvent(Calendar[start], Calendar[end], wlp))
  \/ \E email \in Emails, eventType \in {"outOfOffice", "default"} :
       AddPersonEvent(email, OtherEvent(eventType))
  \/ \E email \in Emails, name \in Names : DiscoveredPerson(email, name)
  \/ \E location \in WorkLocations : UpdatePreferredLocation(location)
  \/ \E email \in Emails, ignored \in BOOLEAN : UpdateIgnoreState(email, ignored)

SpecReducer == InitReducer /\ [][NextReducer]_vars

\* ------------------------------------------------------------ working days
\* Dates are day numbers: day 1 is Monday 2024-01-01, the first of Calendar.
\* Temporal.PlainDate.dayOfWeek: 1 for Monday up to 7 for Sunday
dayOfWeek(d) == ((d - 1) % 7) + 1

\* workingDate(date)
workingDate_noskip(date) == date
workingDate(date) ==
  IF dayOfWeek(date) = 6 THEN date + 2
  ELSE IF dayOfWeek(date) = 0 THEN date + 1
  ELSE date

RECURSIVE Reverse(_)
\* Array.prototype.reverse
Reverse(seq) == IF seq = <<>> THEN <<>> ELSE Append(Reverse(Tail(seq)), Head(seq))

\* const days = [workingDate()]
WindowStart ==
  /\ wpc = "start"
  /\ days' = <<workingDate(today)>>
  /\ wpc' = "loop"
  /\ UNCHANGED <<today, cacheVars, appVars, reducerVars, roomVars, ingestVars, keyVars>>

\* while (days.length < 5) days.unshift(workingDate(days[0].add({ days: 1 })))
WindowUnshift ==
  /\ wpc = "loop"
  /\ Len(days) < WindowSize
  /\ days' = <<workingDate(days[1] + 1)>> \o days
  /\ UNCHANGED <<today, wpc, cacheVars, appVars, reducerVars, roomVars, ingestVars, keyVars>>

\* days.reverse(); return days
WindowReverse ==
  /\ wpc = "loop"
  /\ ~(Len(days) < WindowSize)
  /\ days' = Reverse(days)
  /\ wpc' = "done"
  /\ UNCHANGED <<today, cacheVars, appVars, reducerVars, roomVars, ingestVars, keyVars>>

InitWindow ==
  /\ InitCacheIdle
  /\ InitReducerIdle
  /\ InitAppIdle
  /\ InitRoomsIdle
  /\ InitIngestIdle
  /\ InitKeysIdle
  /\ today \in 1..MaxToday
  /\ days = <<>>
  /\ wpc = "start"

NextWindow ==
  \/ WindowStart
  \/ WindowUnshift
  \/ WindowReverse

SpecWindow == InitWindow /\ [][NextWindow]_vars

\* ------------------------------------------------------------------ rooms
\* A name is a sequence of characters. The calendar summaries a response can
\* carry:
CalendarNames ==
  {
   <<"H", "Q", " ", "-", " ", "R", "o", "o", "m", " ", "A", " ", "(", "4", ")">>,   \* "HQ - Room A (4)"
   <<"H", "Q", " ", "-", " ", "R", "o", "o", "m", " ", "B", " ", "(", "8", ")">>,   \* "HQ - Room B (8)"
   <<"H", "Q", " ", "-", " ", "R", "o", "o", "m", " ", "C">>,   \* "HQ - Room C"
   <<"H", "Q", " ", "-", " ", "L", "a", "b", " ", "(", "0", ")">>,   \* "HQ - Lab (0)"
   <<"H", "Q", " ", "-", " ", "D", "e", "n", " ">>,   \* "HQ - Den "
   <<"H", "Q", "2", " ", "(", "1", "2", ")">>,   \* "HQ2 (12)"
   <<"A", "t", "t", "i", "c">>,   \* "Attic"
   <<"H", "Q", " ", "-", " ", "R", "o", "o", "m">>,   \* "HQ - Room"
   <<"H", "Q", " ", "-", " ", " ", "R", "o", "o", "m", " ", "C">>   \* "HQ -  Room C"
  }

Digits == {"0", "1", "2", "3", "4", "5", "6", "7", "8", "9"}
Letters ==
  {"a", "b", "c", "d", "e", "f", "g", "h", "i", "j", "k", "l", "m",
   "n", "o", "p", "q", "r", "s", "t", "u", "v", "w", "x", "y", "z",
   "A", "B", "C", "D", "E", "F", "G", "H", "I", "J", "K", "L", "M",
   "N", "O", "P", "Q", "R", "S", "T", "U", "V", "W", "X", "Y", "Z"}
Whitespace == {" "}

\* name.match(/\((\d+)\)$/): the index of the "(" of the match, 0 for null
MatchAnnotation(name) ==
  LET n == Len(name)
      opens == {i \in 1..(n - 2) :
                  /\ name[i] = "("
                  /\ name[n] = ")"
                  /\ \A j \in (i + 1)..(n - 1) : name[j] \in Digits}
  IN IF opens = {} THEN 0 ELSE CHOOSE i \in opens : \A j \in opens : i <= j

DigitValue(ch) ==
  CASE ch = "0" -> 0 [] ch = "1" -> 1 [] ch = "2" -> 2 [] ch = "3" -> 3 [] ch = "4" -> 4
    [] ch = "5" -> 5 [] ch = "6" -> 6 [] ch = "7" -> 7 [] ch = "8" -> 8 [] ch = "9" -> 9

RECURSIVE parseInt(_)
\* parseInt(match[1], 10) of a run of digits
parseInt(digits) ==
  IF digits = <<>> THEN 0
  ELSE 10 * parseInt(SubSeq(digits, 1, Len(digits) - 1)) + DigitValue(digits[Len(digits)])

RECURSIVE TrimStart(_)
TrimStart(str) ==
  IF str # <<>> /\ Head(str) \in Whitespace THEN TrimStart(Tail(str)) ELSE str
RECURSIVE TrimEnd(_)
TrimEnd(str) ==
  IF str # <<>> /\ str[Len(str)] \in Whitespace
  THEN TrimEnd(SubSeq(str, 1, Len(str) - 1)) ELSE str
\* String.prototype.trim
Trim(str) == TrimEnd(TrimStart(str))

\* name.replace(/\(\d+\)$/, "").trim() when the name matched, else the name
RoomName_keep(name) == name
RoomName(name) ==
  IF MatchAnnotation(name) > 0
  THEN Trim(SubSeq(name, 1, MatchAnnotation(name) - 1))
  ELSE name

\* maxAttendance as parsed; the set is empty when there was no match
ParsedAttendance(name) ==
  IF MatchAnnotation(name) > 0
  THEN {parseInt(SubSeq(name, MatchAnnotation(name) + 1, Len(name) - 1))}
  ELSE {}

\* if (maxAttendance) push { name, events, maxAttendance } else push { name, events }:
\* the member is left out when maxAttendance is undefined or 0
Room(name) ==
  [name |-> RoomName(name),
   maxAttendance |-> {m \in ParsedAttendance(name) : m # 0}]

RECURSIVE CommonLength(_, _, _)
\* while (i < prefix.length && i < name.length && prefix[i] === name[i]) i++
CommonLength(prefix, name, i) ==
  IF i < Len(prefix) /\ i < Len(name) /\ prefix[i + 1] = name[i + 1]
  THEN CommonLength(prefix, name, i + 1)
  ELSE i

CommonPrefix_firstonly(prefix, names) ==
  IF names = <<>> THEN prefix
  ELSE SubSeq(prefix, 1, CommonLength(prefix, Head(names), 0))
RECURSIVE CommonPrefix(_, _)
\* the loop over roomNames.slice(1), which leaves at an empty prefix
CommonPrefix(prefix, names) ==
  IF names = <<>> \/ prefix = <<>> THEN prefix
  ELSE CommonPrefix(SubSeq(prefix, 1, CommonLength(prefix, Head(names), 0)), Tail(names))

RECURSIVE RemoveTrailing(_)
\* prefix.replace(/[^a-zA-Z0-9-]+$/, "")
RemoveTrailing(prefix) ==
  IF prefix # <<>> /\ prefix[Len(prefix)] \notin (Letters \cup Digits \cup {"-"})
  THEN RemoveTrailing(SubSeq(prefix, 1, Len(prefix) - 1))
  ELSE prefix

\* prefix.length >= 3
LongEnough_any(prefix) == Len(prefix) >= 1
LongEnough(prefix) == Len(prefix) >= 3

\* room.name.startsWith(prefix)
StartsWith(name, prefix) ==
  Len(name) >= Len(prefix) /\ SubSeq(name, 1, Len(prefix)) = prefix

\* room.name.slice(prefix.length).trim()
WithoutPrefix(name, prefix) == Trim(SubSeq(name, Len(prefix) + 1, Len(name)))

\* the prefix the rooms are stripped of; empty when nothing is stripped
SharedPrefix(roomNames) ==
  IF Len(roomNames) > 1
  THEN LET prefix == RemoveTrailing(CommonPrefix(Head(roomNames), Tail(roomNames)))
       IN IF LongEnough(prefix) THEN prefix ELSE <<>>
  ELSE <<>>

\* one turn of `for (const calendar of data.items)` for a resource calendar;
\* the events of the room are left out
RoomPush ==
  /\ rpc = "items"
  /\ Len(rooms) < Len(calendars)
  /\ rooms' = Append(rooms, Room(calendars[Len(rooms) + 1]))
  /\ UNCHANGED <<calendars, rpc, cacheVars, appVars, reducerVars, windowVars, ingestVars, keyVars>>

\* the loop is over
RoomsCollected ==
  /\ rpc = "items"
  /\ Len(rooms) = Len(calendars)
  /\ rpc' = "prefix"
  /\ UNCHANGED <<calendars, rooms, cacheVars, appVars, reducerVars, windowVars, ingestVars, keyVars>>

\* "If the rooms share a prefix, remove the prefix"; return rooms
RoomsStripPrefix ==
  /\ rpc = "prefix"
  /\ LET prefix == SharedPrefix([i \in 1..Len(rooms) |-> rooms[i].name])
     IN rooms' = [i \in 1..Len(rooms) |->
                    IF prefix # <<>> /\ StartsWith(rooms[i].name, prefix)
                    THEN [rooms[i] EXCEPT !.name = WithoutPrefix(@, prefix)]
                    ELSE rooms[i]]
  /\ rpc' = "done"
  /\ UNCHANGED <<calendars, cacheVars, appVars, reducerVars, windowVars, ingestVars, keyVars>>

RECURSIVE SeqsUpTo(_, _)
\* the sequences over S of length at most n
SeqsUpTo(S, n) ==
  IF n = 0 THEN {<<>>}
  ELSE LET shorter == SeqsUpTo(S, n - 1)
       IN shorter \cup {Append(q, x) : q \in shorter, x \in S}

InitRooms ==
  /\ InitCacheIdle
  /\ InitReducerIdle
  /\ InitAppIdle
  /\ InitWindowIdle
  /\ InitIngestIdle
  /\ InitKeysIdle
  /\ calendars \in SeqsUpTo(CalendarNames, MaxRooms)
  /\ rooms = <<>>
  /\ rpc = "items"

NextRooms ==
  \/ RoomPush
  \/ RoomsCollected
  \/ RoomsStripPrefix

SpecRooms == InitRooms /\ [][NextRooms]_vars

\* -------------------------------------------------------------- ingestion
\* The entries a people-directory response can carry: a person with a primary
\* email and a primary name, one whose primary email is the second address and
\* who has no primary name, one with no primary address, one with no addresses
\* and no names.
DirectoryPeople ==
  {[names |-> <<[primary |-> TRUE, displayName |-> "Ann"]>>,
    emailAddresses |-> <<[value |-> "a@x", primary |-> TRUE]>>],
   [names |-> <<[primary |-> FALSE, displayName |-> "Bo"]>>,
    emailAddresses |-> <<[value |-> "alias@x", primary |-> FALSE], [value |-> "b@x", primary |-> TRUE]>>],
   [names |-> <<[primary |-> TRUE, displayName |-> "Cy"]>>,
    emailAddresses |-> <<[value |-> "c@x", primary |-> FALSE]>>],
   [names |-> <<>>, emailAddresses |-> <<>>]}

\* the items a calendar response can carry
CalendarItems ==
  {WorkingLocationEvent("2024-01-01", "2024-01-02", "homeOffice"),
   WorkingLocationEvent("2024-01-01", "2024-01-03", "officeLocation"),
   WorkingLocationEvent("2024-01-02", "2024-01-01", "homeOffice")}

\* how a fetchWithCache call of the pass can fail: it rejects (network error,
\* 401, unreadable body), or it returns the body of an error response, which
\* has no people and no items, and the for-of over undefined throws
FailureKinds == {"rejected", "errorBody"}

\* person.emailAddresses?.find((e) => e.metadata?.primary)?.value, "" for undefined
PrimaryEmail_first(person) ==
  IF person.emailAddresses = <<>> THEN "" ELSE person.emailAddresses[1].value
PrimaryEmail(person) ==
  LET flagged == {k \in 1..Len(person.emailAddresses) : person.emailAddresses[k].primary}
  IN IF flagged = {} THEN ""
     ELSE person.emailAddresses[CHOOSE k \in flagged : \A l \in flagged : k <= l].value

\* person.names?.find((n) => n.metadata?.primary)?.displayName || email
DisplayName_undefined(person, email) ==
  LET flagged == {k \in 1..Len(person.names) : person.names[k].primary}
  IN IF flagged = {} THEN ""
     ELSE person.names[CHOOSE k \in flagged : \A l \in flagged : k <= l].displayName
DisplayName(person, email) ==
  LET flagged == {k \in 1..Len(person.names) : person.names[k].primary}
      found == IF flagged = {} THEN ""
               ELSE person.names[CHOOSE k \in flagged : \A l \in flagged : k <= l].displayName
  IN IF found = "" THEN email ELSE found

\* the error fetchHoozinData rejects with: the error of the call, or the
\* TypeError of `for (... of undefined)`
ErrorOf(kind) == IF kind = "rejected" THEN "Error" ELSE "TypeError"

\* the pass after a call of it failed: the async function has rejected
Rejected_continue(p, kind) == [p EXCEPT !.pc = "person", !.i = @ + 1]
Rejected(p, kind) == [p EXCEPT !.pc = "failed", !.error = ErrorOf(kind)]

\* the element `for (const calendarEvent of data.items)` visits in turn j
ItemAt_reversed(itemList, j) == itemList[Len(itemList) + 1 - j]
ItemAt(itemList, j) == itemList[j]

\* await fetchWithCache(url) for the people directory: the request leaves
RequestDirectory ==
  /\ pass.pc = "start"
  /\ requests' = Append(requests, "directory")
  /\ inflight' = inflight + 1
  /\ pass' = [pass EXCEPT !.pc = "awaitDirectory"]
  /\ UNCHANGED <<responses, dispatched, failures, cacheVars, appVars, reducerVars, windowVars, roomVars, keyVars>>

\* the directory call returns data1 with people
DirectoryResolves(list) ==
  /\ pass.pc = "awaitDirectory"
  /\ inflight' = inflight - 1
  /\ pass' = [pass EXCEPT !.pc = "person", !.i = 1, !.people = list]
  /\ UNCHANGED <<requests, responses, dispatched, failures, cacheVars, appVars, reducerVars, windowVars, roomVars, keyVars>>

\* a call of the pass fails
CallFails(kind) ==
  /\ pass.pc \in {"awaitDirectory", "awaitCalendar"}
  /\ inflight' = inflight - 1
  /\ failures' = failures + 1
  /\ pass' = Rejected(pass, kind)
  /\ UNCHANGED <<requests, responses, dispatched, cacheVars, appVars, reducerVars, windowVars, roomVars, keyVars>>

\* if (!email) continue
SkipPerson ==
  /\ pass.pc = "person"
  /\ pass.i <= Len(pass.people)
  /\ PrimaryEmail(pass.people[pass.i]) = ""
  /\ pass' = [pass EXCEPT !.i = @ + 1]
  /\ UNCHANGED <<requests, inflight, responses, dispatched, failures, cacheVars, appVars, reducerVars,
                 windowVars, roomVars, keyVars>>

\* dispatch({ type: "DISCOVERED_PERSON", email, name })
DiscoverPerson ==
  /\ pass.pc = "person"
  /\ pass.i <= Len(pass.people)
  /\ PrimaryEmail(pass.people[pass.i]) # ""
  /\ LET email == PrimaryEmail(pass.people[pass.i])
         a == [type |-> "DISCOVERED_PERSON", email |-> email,
               name |-> DisplayName(pass.people[pass.i], email)]
     IN /\ ReducerStep(a)
        /\ dispatched' = Append(dispatched, a)
  /\ pass' = [pass EXCEPT !.pc = "request"]
  /\ UNCHANGED <<requests, inflight, responses, failures, cacheVars, appVars, windowVars, roomVars, keyVars>>

\* await fetchWithCache(url) for the person's calendar: the request leaves
RequestCalendar ==
  /\ pass.pc = "request"
  /\ requests' = Append(requests, PrimaryEmail(pass.people[pass.i]))
  /\ inflight' = inflight + 1
  /\ pass' = [pass EXCEPT !.pc = "awaitCalendar"]
  /\ UNCHANGED <<responses, dispatched, failures, cacheVars, appVars, reducerVars, windowVars, roomVars, keyVars>>

\* the calendar call returns data with items
CalendarResolves(itemList) ==
  /\ pass.pc = "awaitCalendar"
  /\ inflight' = inflight - 1
  /\ responses' = Append(responses, itemList)
  /\ pass' = [pass EXCEPT !.pc = "items", !.j = 1, !.items = itemList]
  /\ UNCHANGED <<requests, dispatched, failures, cacheVars, appVars, reducerVars, windowVars, roomVars, keyVars>>

\* dispatch({ type: "ADD_PERSON_EVENT", email, calendarEvent })
DispatchItem ==
  /\ pass.pc = "items"
  /\ pass.j <= Len(pass.items)
  /\ LET a == [type |-> "ADD_PERSON_EVENT", email |-> PrimaryEmail(pass.people[pass.i]),
               calendarEvent |-> ItemAt(pass.items, pass.j)]
     IN /\ ReducerStep(a)
        /\ dispatched' = Append(dispatched, a)
  /\ pass' = [pass EXCEPT !.j = @ + 1]
  /\ UNCHANGED <<requests, inflight, responses, failures, cacheVars, appVars, windowVars, roomVars, keyVars>>

\* the items are done: the next person
NextPerson ==
  /\ pass.pc = "items"
  /\ pass.j > Len(pass.items)
  /\ pass' = [pass EXCEPT !.pc = "person", !.i = @ + 1]
  /\ UNCHANGED <<requests, inflight, responses, dispatched, failures, cacheVars, appVars, reducerVars,
                 windowVars, roomVars, keyVars>>

\* the people are done: fetchHoozinData returns
PassReturns ==
  /\ pass.pc = "person"
  /\ pass.i > Len(pass.people)
  /\ pass' = [pass EXCEPT !.pc = "done"]
  /\ UNCHANGED <<requests, inflight, responses, dispatched, failures, cacheVars, appVars, reducerVars,
                 windowVars, roomVars, keyVars>>

\* the effect of Hoozin calls fetchHoozinData(fetch, dispatch, ...) on the
\* State of useReducer
InitIngest ==
  /\ InitCacheIdle
  /\ InitReducerIdle
  /\ InitAppIdle
  /\ InitWindowIdle
  /\ InitRoomsIdle
  /\ InitKeysIdle
  /\ pass = [pc |-> "start", error |-> "none", people |-> <<>>, i |-> 0, j |-> 0, items |-> <<>>]
  /\ requests = <<>>
  /\ inflight = 0
  /\ responses = <<>>
  /\ dispatched = <<>>
  /\ failures = 0

NextIngest ==
  \/ RequestDirectory
  \/ \E list \in SeqsUpTo(DirectoryPeople, MaxPeople) : DirectoryResolves(list)
  \/ \E kind \in FailureKinds : CallFails(kind)
  \/ SkipPerson
  \/ DiscoverPerson
  \/ RequestCalendar
  \/ \E itemList \in SeqsUpTo(CalendarItems, MaxItems) : CalendarResolves(itemList)
  \/ DispatchItem
  \/ NextPerson
  \/ PassReturns

SpecIngest == InitIngest /\ [][NextIngest]_vars

\* The pass under the scheduling of the event loop: a continuation whose
\* awaited call has settled is run, and no call stays unanswered forever.
SpecIngestLive == InitIngest /\ [][NextIngest]_vars /\ WF_vars(NextIngest)

\* ------------------------------------------------------------- cache keys
\* What a caller hands to new URL(...): scheme, host, port and path as
\* written. The URL object lower-cases scheme and host, drops the default port
\* of the scheme and turns an empty path into "/".
Schemes == {"https", "HTTPS"}
Hosts == {"content.googleapis.com", "Content.GoogleAPIs.com"}
Ports == {"", "443", "8443"}
Paths == {"", "/", "/calendar"}
RawURLs == [scheme : Schemes, host : Hosts, port : Ports, path : Paths]

\* ASCII lower case of the scheme and host spellings above
Lower(str) ==
  CASE str = "HTTPS" -> "https"
    [] str = "Content.GoogleAPIs.com" -> "content.googleapis.com"
    [] OTHER -> str

\* url.toString() of new URL(raw): the serialised, normalised href
URLToString_raw(raw) ==
  raw.scheme \o "://" \o raw.host \o (IF raw.port = "" THEN "" ELSE ":" \o raw.port) \o raw.path
URLToString(raw) ==
  Lower(raw.scheme) \o "://" \o Lower(raw.host)
    \o (IF raw.port = "" \/ (Lower(raw.scheme) = "https" /\ raw.port = "443")
        THEN "" ELSE ":" \o raw.port)
    \o (IF raw.path = "" THEN "/" ELSE raw.path)

\* digestMessage(message): the SHA-256 of the message in hex, kept as a term
\* over the message: two messages have one digest only when they are equal
digestMessage(message) == "sha256(" \o message \o ")"

\* const cacheKey = await digestMessage(url.toString() + "V2")
CacheKeyOf(href) == digestMessage(href \o "V2")

KeyCallIds == {1, 2}

\* fetchWithCache(url) is called: url.toString() is taken
FetchWithCacheCall(c, raw) ==
  /\ kcalls[c].pc = "idle"
  /\ kcalls' = [kcalls EXCEPT ![c] = [pc |-> "digesting", key |-> "", raw |-> raw,
                                      href |-> URLToString(raw)]]
  /\ UNCHANGED <<keyStore, cacheVars, appVars, reducerVars, windowVars, roomVars, ingestVars>>

\* the digest resolves and cacheFetch reads localStorage: a hit returns, a
\* miss goes to the fetcher
KeyComputed(c) ==
  /\ kcalls[c].pc = "digesting"
  /\ LET key == CacheKeyOf(kcalls[c].href)
     IN kcalls' = [kcalls EXCEPT ![c].key = key,
                                 ![c].pc = IF \E e \in keyStore : e.key = key
                                           THEN "hit" ELSE "fetching"]
  /\ UNCHANGED <<keyStore, cacheVars, appVars, reducerVars, windowVars, roomVars, ingestVars>>

\* the fetcher returns and localStorage.setItem(key, ...) puts the entry
EntryWritten(c) ==
  /\ kcalls[c].pc = "fetching"
  /\ keyStore' = {e \in keyStore : e.key # kcalls[c].key} \cup {[key |-> kcalls[c].key, by |-> c]}
  /\ kcalls' = [kcalls EXCEPT ![c].pc = "written"]
  /\ UNCHANGED <<cacheVars, appVars, reducerVars, windowVars, roomVars, ingestVars>>

InitKeys ==
  /\ InitCacheIdle
  /\ InitReducerIdle
  /\ InitAppIdle
  /\ InitWindowIdle
  /\ InitRoomsIdle
  /\ InitIngestIdle
  /\ kcalls = [c \in KeyCallIds |->
                 [pc |-> "idle", key |-> "", raw |-> CHOOSE raw \in RawURLs : TRUE, href |-> ""]]
  /\ keyStore = {}

NextKeys ==
  \/ \E c \in KeyCallIds, raw \in RawURLs : FetchWithCacheCall(c, raw)
  \/ \E c \in KeyCallIds : KeyComputed(c)
  \/ \E c \in KeyCallIds : EntryWritten(c)

SpecKeys == InitKeys /\ [][NextKeys]_vars

\* ============================ the earlier fetchWithCache (src/unnamed/part_000)
\* A stored value is its string, "absent" when getItem returns null; a cache
\* key holds JSON.stringify(data) of a response body.

\* nothing has run yet
InitApp == InitCacheIdle /\ InitReducerIdle /\ InitPipelineIdle

\* the catch block: it rethrows nothing, so every error of the try block ends
\* there and fetchWithCache goes on to `return data`
LegacyCatch(err) == "none"

\* fetchWithCache(url) up to `await fetch(...)`
LegacyCall(c, k) ==
  /\ v1calls[c].pc = "idle"
  /\ \A c2 \in CallIds : c2 < c => v1calls[c2].pc # "idle"
  /\ v1token # "null"
  /\ LET cached == v1store[k]
         started == [v1calls[c] EXCEPT !.key = k]
     IN v1calls' = [v1calls EXCEPT ![c] =
          IF cached # "absent"
          THEN [started EXCEPT !.pc = "done", !.outcome = "returned", !.result = cached]
          ELSE [started EXCEPT !.pc = "fetching"]]
  /\ UNCHANGED <<v1store, v1token, runs, wnow, wstore, wcalendars, wpass, wnet, showSettings,
                 cacheVars, reducerVars, windowVars, roomVars, ingestVars, keyVars>>

\* the upstream answers call c: response.json(), the try block (the 401
\* branch throws, the 200 branch writes), the catch block, `return data`
LegacyResponse(c, status, jsonOk, wr) ==
  /\ v1calls[c].pc = "fetching"
  /\ LET k == v1calls[c].key
         data == Body(c, status)
         answered == [v1calls[c] EXCEPT !.pc = "done", !.status = status]
         raised == IF status = 401 THEN "Unauthorized"
                   ELSE IF status = 200 /\ wr # "ok" THEN wr
                   ELSE "none"
         uncaught == LegacyCatch(raised)
     IN IF ~jsonOk
        THEN /\ v1calls' = [v1calls EXCEPT ![c] =
                  [answered EXCEPT !.outcome = "threw", !.error = "SyntaxError"]]
             /\ UNCHANGED <<v1store, v1token>>
        ELSE /\ v1token' = IF status = 401 THEN "null" ELSE v1token
             /\ v1store' =
                  CASE status = 401 -> [v1store EXCEPT !["googleToken"] = "absent"]
                    [] status = 200 /\ wr = "ok" -> [v1store EXCEPT ![k] = data]
                    [] status = 200 /\ wr = "QuotaExceededError" ->
                         [key \in DOMAIN v1store |-> "absent"]
                    [] OTHER -> v1store
             /\ v1calls' = [v1calls EXCEPT ![c] =
                  IF uncaught = "none"
                  THEN [answered EXCEPT !.outcome = "returned", !.result = data]
                  ELSE [answered EXCEPT !.outcome = "threw", !.error = uncaught]]
  /\ UNCHANGED <<runs, wnow, wstore, wcalendars, wpass, wnet, showSettings, cacheVars, reducerVars,
                 windowVars, roomVars, ingestVars, keyVars>>

\* fetch() itself rejects: fetchWithCache rejects
LegacyNetworkError(c) ==
  /\ v1calls[c].pc = "fetching"
  /\ v1calls' = [v1calls EXCEPT ![c] =
       [@ EXCEPT !.pc = "done", !.outcome = "threw", !.error = "NetworkError"]]
  /\ UNCHANGED <<v1store, v1token, runs, wnow, wstore, wcalendars, wpass, wnet, showSettings,
                 cacheVars, reducerVars, windowVars, roomVars, ingestVars, keyVars>>

NextLegacy ==
  \/ \E c \in CallIds, k \in LegacyCacheKeys : LegacyCall(c, k)
  \/ \E c \in CallIds, status \in Statuses, jsonOk \in BOOLEAN, wr \in WriteOutcomes :
       LegacyResponse(c, status, jsonOk, wr)
  \/ \E c \in CallIds : LegacyNetworkError(c)

SpecLegacy == InitApp /\ [][NextLegacy]_vars

\* ================================== overlapping runs of fetchHoozinData
\* The effect of Hoozin runs again when fetch changes (a new token), while the
\* run it started before is still awaiting a call; both dispatch to the same
\* reducer.

\* dispatch({ type: "DISCOVERED_PERSON", email, name }) for a directory entry
DiscoveryAction_alias(person) ==
  [type |-> "DISCOVERED_PERSON", email |-> person.emailAddresses[1].value,
   name |-> DisplayName(person, PrimaryEmail(person))]
DiscoveryAction(person) ==
  [type |-> "DISCOVERED_PERSON", email |-> PrimaryEmail(person),
   name |-> DisplayName(person, PrimaryEmail(person))]

\* the directory call of run r returns data1 with people
RunDirectory(r, list) ==
  /\ runs[r].pc = "start"
  /\ runs' = [runs EXCEPT ![r] = [@ EXCEPT !.pc = "person", !.i = 1, !.people = list]]
  /\ UNCHANGED <<v1store, v1token, v1calls, wnow, wstore, wcalendars, wpass, wnet, showSettings,
                 cacheVars, reducerVars, windowVars, roomVars, ingestVars, keyVars>>

\* a call of run r fails: the run rejects
RunFails(r) ==
  /\ runs[r].pc \in {"start", "awaitCalendar"}
  /\ runs' = [runs EXCEPT ![r] = [@ EXCEPT !.pc = "failed"]]
  /\ UNCHANGED <<v1store, v1token, v1calls, wnow, wstore, wcalendars, wpass, wnet, showSettings,
                 cacheVars, reducerVars, windowVars, roomVars, ingestVars, keyVars>>

\* one turn of the loop over the people, up to its await: `if (!email)
\* continue`, or the DISCOVERED_PERSON dispatch and the calendar request
RunPerson(r) ==
  /\ runs[r].pc = "person"
  /\ runs[r].i <= Len(runs[r].people)
  /\ IF PrimaryEmail(runs[r].people[runs[r].i]) = ""
     THEN /\ runs' = [runs EXCEPT ![r] = [@ EXCEPT !.i = @ + 1]]
          /\ UNCHANGED reducerVars
     ELSE /\ ReducerStep(DiscoveryAction(runs[r].people[runs[r].i]))
          /\ runs' = [runs EXCEPT ![r] = [@ EXCEPT !.pc = "awaitCalendar"]]
  /\ UNCHANGED <<v1store, v1token, v1calls, wnow, wstore, wcalendars, wpass, wnet, showSettings,
                 cacheVars, windowVars, roomVars, ingestVars, keyVars>>

\* the calendar call of run r returns data with items
RunCalendar(r, itemList) ==
  /\ runs[r].pc = "awaitCalendar"
  /\ runs' = [runs EXCEPT ![r] = [@ EXCEPT !.pc = "items", !.j = 1, !.items = itemList]]
  /\ UNCHANGED <<v1store, v1token, v1calls, wnow, wstore, wcalendars, wpass, wnet, showSettings,
                 cacheVars, reducerVars, windowVars, roomVars, ingestVars, keyVars>>

\* one turn of the loop over the items: an ADD_PERSON_EVENT dispatch; after
\* the last item, the next turn of the loop over the people
RunItems(r) ==
  /\ runs[r].pc = "items"
  /\ IF runs[r].j <= Len(runs[r].items)
     THEN /\ ReducerStep([type |-> "ADD_PERSON_EVENT",
                          email |-> PrimaryEmail(runs[r].people[runs[r].i]),
                          calendarEvent |-> ItemAt(runs[r].items, runs[r].j)])
          /\ runs' = [runs EXCEPT ![r] = [@ EXCEPT !.j = @ + 1]]
     ELSE /\ runs' = [runs EXCEPT ![r] = [@ EXCEPT !.pc = "person", !.i = @ + 1]]
          /\ UNCHANGED reducerVars
  /\ UNCHANGED <<v1store, v1token, v1calls, wnow, wstore, wcalendars, wpass, wnet, showSettings,
                 cacheVars, windowVars, roomVars, ingestVars, keyVars>>

\* the people are done: run r returns
RunReturns(r) ==
  /\ runs[r].pc = "person"
  /\ runs[r].i > Len(runs[r].people)
  /\ runs' = [runs EXCEPT ![r] = [@ EXCEPT !.pc = "done"]]
  /\ UNCHANGED <<v1store, v1token, v1calls, wnow, wstore, wcalendars, wpass, wnet, showSettings,
                 cacheVars, reducerVars, windowVars, roomVars, ingestVars, keyVars>>

NextOverlap ==
  \/ \E r \in DOMAIN runs, list \in SeqsUpTo(DirectoryPeople, MaxRunPeople) : RunDirectory(r, list)
  \/ \E r \in DOMAIN runs : RunFails(r)
  \/ \E r \in DOMAIN runs : RunPerson(r)
  \/ \E r \in DOMAIN runs, itemList \in SeqsUpTo(CalendarItems, MaxRunItems) :
       RunCalendar(r, itemList)
  \/ \E r \in DOMAIN runs : RunItems(r)
  \/ \E r \in DOMAIN runs : RunReturns(r)

SpecOverlap == InitApp /\ [][NextOverlap]_vars

\* ============================== the requests of fetchWazzupData, pass by pass
\* url.toString() of the calendarList request
CalendarListURL == "https://www.googleapis.com/calendar/v3/users/me/calendarList?minAccessRole=reader"

\* url.toString() of the events request for a calendar, built at instant t:
\* timeMax is Temporal.Now.plainDateTimeISO().add({ weeks: 1 }).toString(), the
\* reading of the clock at full precision a week later; timeMin is the reading
\* .with({ minute: 0, second: 0, millisecond: 0 }), cut to the hour
EventsURL(id, t) ==
  "https://content.googleapis.com/calendar/v3/calendars/" \o id \o "/events?timeMax="
    \o ToString(t + Week) \o "Z&timeMin=" \o ToString(t - (t % Hour)) \o "Z"

\* cacheFetch's lookup among the entries of the room passes: the entries
\* under the key of href that are a hit at instant t
Cached(href, t) ==
  {e \in wstore : e.key = CacheKeyOf(href) /\ cacheFetchLookup(e.entry, t) = "hit"}

\* fetchWithCache(href) of a room pass at the instant wnow: served from the
\* cache, or fetched upstream (a network invocation that answers data) and
\* written under its key
WazzupFetch(href, data) ==
  IF Cached(href, wnow) # {}
  THEN UNCHANGED <<wstore, wnet>>
  ELSE /\ wnet' = Append(wnet, [pass |-> wpass.n, href |-> href, at |-> wnow])
       /\ wstore' = {e \in wstore : e.key # CacheKeyOf(href)}
                      \cup {[key |-> CacheKeyOf(href), entry |-> NewEntry(wnow, TTL, data)]}

\* Wazzap's effect calls fetchWazzupData(fetch)
WazzupStart ==
  /\ wpass.pc \in {"off", "returned"}
  /\ wpass.n < MaxPasses
  /\ wpass' = [pc |-> "list", n |-> wpass.n + 1, idx |-> 0]
  /\ UNCHANGED <<v1store, v1token, v1calls, runs, wnow, wstore, wcalendars, wnet, showSettings,
                 cacheVars, reducerVars, windowVars, roomVars, ingestVars, keyVars>>

\* await fetchWithCache(url) for the calendar list: data.items is the list of
\* the cached entry, or the list the upstream answers with
WazzupList(list) ==
  /\ wpass.pc = "list"
  /\ WazzupFetch(CalendarListURL, list)
  /\ wcalendars' = IF Cached(CalendarListURL, wnow) # {}
                   THEN HitData((CHOOSE e \in Cached(CalendarListURL, wnow) : TRUE).entry)
                   ELSE list
  /\ wpass' = [wpass EXCEPT !.pc = "calendar", !.idx = 1]
  /\ UNCHANGED <<v1store, v1token, v1calls, runs, wnow, showSettings, cacheVars, reducerVars,
                 windowVars, roomVars, ingestVars, keyVars>>

\* one turn of the loop over the calendars: `continue` for a calendar that is
\* no resource, else await fetchWithCache(url) for its events
WazzupCalendar ==
  /\ wpass.pc = "calendar"
  /\ wpass.idx <= Len(wcalendars)
  /\ IF wcalendars[wpass.idx] = "room1@resource.calendar.google.com"
     THEN WazzupFetch(EventsURL(wcalendars[wpass.idx], wnow), "events")
     ELSE UNCHANGED <<wstore, wnet>>
  /\ wpass' = [wpass EXCEPT !.idx = @ + 1]
  /\ UNCHANGED <<v1store, v1token, v1calls, runs, wnow, wcalendars, showSettings, cacheVars,
                 reducerVars, windowVars, roomVars, ingestVars, keyVars>>

\* the calendars are done: fetchWazzupData returns its rooms
WazzupReturns ==
  /\ wpass.pc = "calendar"
  /\ wpass.idx > Len(wcalendars)
  /\ wpass' = [wpass EXCEPT !.pc = "returned"]
  /\ UNCHANGED <<v1store, v1token, v1calls, runs, wnow, wstore, wcalendars, wnet, showSettings,
                 cacheVars, reducerVars, windowVars, roomVars, ingestVars, keyVars>>

\* the clock of the room passes advances
WazzupTick ==
  /\ wnow < MaxTime
  /\ wnow' = wnow + 1
  /\ UNCHANGED <<v1store, v1token, v1calls, runs, wstore, wcalendars, wpass, wnet, showSettings,
                 cacheVars, reducerVars, windowVars, roomVars, ingestVars, keyVars>>

NextWazzup ==
  \/ WazzupStart
  \/ \E list \in SeqsUpTo({"room1@resource.calendar.google.com", "me@example.com"}, MaxRooms) :
       WazzupList(list)
  \/ WazzupCalendar
  \/ WazzupReturns
  \/ WazzupTick

SpecWazzup == InitApp /\ [][NextWazzup]_vars

\* ===================================== the Hoozin session and its settings dialog
\* the comparator of lazilySortedPeople is negative: a sorts before b;
\* a.name.localeCompare(b.name) orders the names of the model as "Ann", "Bo"
SortsBefore(a, b, ignored) ==
  LET aIgnored == IF a.email \in ignored THEN 1 ELSE 0
      bIgnored == IF b.email \in ignored THEN 1 ELSE 0
  IN IF aIgnored # bIgnored THEN aIgnored < bIgnored
     ELSE a.name = "Ann" /\ b.name = "Bo"

\* Array.prototype.sort is stable: x goes before the first element it sorts before
RECURSIVE InsertSorted(_, _, _)
InsertSorted(x, sorted, ignored) ==
  IF sorted = <<>> THEN <<x>>
  ELSE IF SortsBefore(x, Head(sorted), ignored) THEN <<x>> \o sorted
  ELSE <<Head(sorted)>> \o InsertSorted(x, Tail(sorted), ignored)

RECURSIVE SortPeople(_, _)
SortPeople(people, ignored) ==
  IF people = <<>> THEN <<>>
  ELSE InsertSorted(people[Len(people)], SortPeople(SubSeq(people, 1, Len(people) - 1), ignored),
                    ignored)

\* setShowSettings(...): the dialog opens or closes, Hoozin renders again and
\* the useMemo of lazilySortedPeople runs state.people.sort(...), which sorts
\* the array of the current State in place. The State the reducer was given
\* last holds the same array unless the last action appended a person.
ToggleSettings ==
  /\ showSettings' = ~showSettings
  /\ state' = [state EXCEPT !.people = SortPeople(state.people, state.ignorePeople)]
  /\ prior' = IF Len(prior.people) = Len(state.people)
              THEN [prior EXCEPT !.people = SortPeople(state.people, state.ignorePeople)]
              ELSE prior
  /\ UNCHANGED <<lastAction, nActions, reducerError, v1store, v1token, v1calls, runs, wnow,
                 wstore, wcalendars, wpass, wnet, cacheVars, windowVars, roomVars, ingestVars,
                 keyVars>>

NextSession ==
  \/ \E email \in Emails, name \in Names : DiscoveredPerson(email, name)
  \/ \E email \in Emails, ignored \in BOOLEAN : UpdateIgnoreState(email, ignored)
  \/ ToggleSettings

SpecSession == InitReducer /\ [][NextSession]_vars

\* ============================================================== properties
Returned(c) == Done(c) /\ calls[c].outcome = "returned"
Threw(c) == Done(c) /\ calls[c].outcome = "threw"
\* call c gets its answer in this step
Answered(c) == calls[c].pc = "fetching" /\ calls'[c].pc = "done"
\* purgeCache runs in this step
Purged == Len(purgeLog') > Len(purgeLog)
\* shapes the parse of a stored string rejects
MalformedShapes == {"empty", "notjson", "nonobject", "noexpires", "badexpires"}

\* C1: a call returns without invoking the fetcher only when the string its
\* lookup read is an entry whose expiresAt is strictly later than the clock of
\* the lookup, and then it returns that entry's data; a call that did invoke the
\* fetcher returns the body of its own response, never the stored data.
C1_OnlyFreshReturned ==
  \A c \in CallIds :
    Returned(c) =>
      IF calls[c].fetches = 0
      THEN /\ calls[c].lookup.shape = "entry"
           /\ ~calls[c].stale
           /\ calls[c].result = calls[c].lookup.data
      ELSE /\ calls[c].fetches = 1
           /\ calls[c].result = Body(c, calls[c].status)

\* a call was served from an entry that was fresh, and another call found an
\* expired entry and returned its own response
C1_Witness ==
  /\ \E c \in CallIds : Returned(c) /\ calls[c].fetches = 0 /\ calls[c].lookup.shape = "entry"
  /\ \E c \in CallIds : Returned(c) /\ calls[c].fetches = 1 /\ calls[c].stale

\* C2 as stated: a call for the same key that starts after a first call
\* returned, before the expiresAt of the first call's entry, returns the first
\* call's payload without invoking the fetcher.
C2_Original ==
  [][\A c1, c2 \in CallIds :
       (/\ c1 # c2
        /\ Returned(c1)
        /\ calls[c2].pc = "idle" /\ calls'[c2].pc # "idle"
        /\ calls'[c2].key = calls[c1].key
        /\ now < calls[c1].window)
       => (/\ calls'[c2].pc = "done"
           /\ calls'[c2].outcome = "returned"
           /\ calls'[c2].fetches = 0
           /\ calls'[c2].result = calls[c1].result)]_vars

\* C2 amended: the same, provided the entry the first call wrote (or was served
\* from) is still the string stored under the key when the second call looks it up.
C2_Idempotent ==
  [][\A c1, c2 \in CallIds :
       (/\ c1 # c2
        /\ Returned(c1)
        /\ calls[c2].pc = "idle" /\ calls'[c2].pc # "idle"
        /\ calls'[c2].key = calls[c1].key
        /\ now < calls[c1].window
        /\ store[calls[c1].key] = Entry(calls[c1].window, calls[c1].result))
       => (/\ calls'[c2].pc = "done"
           /\ calls'[c2].outcome = "returned"
           /\ calls'[c2].fetches = 0
           /\ calls'[c2].result = calls[c1].result)]_vars

\* call 1 fetched and stored its response, call 2 was served from that entry
C2_Witness ==
  /\ Returned(1) /\ calls[1].fetches = 1 /\ calls[1].write = "ok"
  /\ Returned(2) /\ calls[2].fetches = 0
  /\ calls[2].key = calls[1].key
  /\ calls[2].result = calls[1].result
  /\ calls[2].lookup = Entry(calls[1].window, calls[1].result)

\* C3 as stated: a call that found an expired entry and returns has invoked the
\* fetcher once, and the key then holds the fetched data with
\* expiresAt = time of the write + ttl, later than the old expiresAt.
C3_Original ==
  [][\A c \in CallIds :
       (Answered(c) /\ calls[c].stale /\ calls'[c].outcome = "returned")
       => (/\ calls'[c].fetches = 1
           /\ calls'[c].result = Body(c, calls'[c].status)
           /\ store'[calls[c].key] = Entry(now' + TTL, calls'[c].result)
           /\ store'[calls[c].key].expiresAt > calls[c].lookup.expiresAt)]_vars

\* C3 amended: every call that finds an expired entry invokes the fetcher once;
\* when it returns and its setItem succeeded, the key holds the fetched data
\* with expiresAt = time of the write + ttl, later than the old expiresAt.
C3_ExpiryRefresh ==
  [][\A c \in CallIds :
       /\ (calls'[c].pc # "idle" /\ calls'[c].stale) => calls'[c].fetches = 1
       /\ (Answered(c) /\ calls[c].stale /\ calls'[c].outcome = "returned"
             /\ calls'[c].write = "ok")
          => (/\ calls'[c].result = Body(c, calls'[c].status)
              /\ store'[calls[c].key] = Entry(now' + TTL, calls'[c].result)
              /\ store'[calls[c].key].expiresAt > calls[c].lookup.expiresAt)]_vars

\* a call found an expired entry, fetched, and its entry is in the store
C3_Witness ==
  \E c \in CallIds :
    /\ Returned(c) /\ calls[c].stale /\ calls[c].lookup.shape = "entry"
    /\ calls[c].fetches = 1 /\ calls[c].write = "ok"
    /\ store[calls[c].key] = Entry(calls[c].window, calls[c].result)
    /\ calls[c].window > calls[c].lookup.expiresAt

\* C4: when the setItem of a call fails with QuotaExceededError, no cache key
\* is left in the store, preferredLocation keeps its value, the fetched entry
\* is not stored, and the call returns the fetched data without an error.
C4_QuotaEviction ==
  [][\A c \in CallIds :
       (Answered(c) /\ calls'[c].write = "QuotaExceededError")
       => (/\ \A k \in CacheKeys : store'[k] = Absent
           /\ store'["preferredLocation"] = store["preferredLocation"]
           /\ calls'[c].outcome = "returned"
           /\ calls'[c].error = "none"
           /\ calls'[c].result = Body(c, calls'[c].status))]_vars

\* a call hit the quota while its key held a string and preferredLocation was
\* set: the cache keys are gone, preferredLocation is still there
C4_Witness ==
  \E c \in CallIds :
    /\ Returned(c) /\ calls[c].write = "QuotaExceededError"
    /\ calls[c].lookup # Absent
    /\ \A k \in CacheKeys : store[k] = Absent
    /\ store["preferredLocation"] = Other("notjson", "homeOffice")

\* C5 as stated: a stored string that does not parse, or lacks expiresAt or
\* data, is a cache miss: the fetcher is invoked.
C5_MalformedIsMiss ==
  \A c \in CallIds :
    (calls[c].pc # "idle" /\ calls[c].lookup.shape \in MalformedShapes \cup {"nodata"})
    => calls[c].fetches = 1

\* C6 as stated: a response with status 401 writes no entry, removes
\* googleToken, sets the token to null and makes the call fail.
C6_UnauthorizedClearsCredential ==
  [][\A c \in CallIds :
       (Answered(c) /\ calls'[c].status = 401)
       => (/\ store'[calls[c].key] = store[calls[c].key]
           /\ store'["googleToken"] = Absent
           /\ token' = "null"
           /\ calls'[c].outcome = "threw")]_vars

\* C7: when the setItem of a call fails with another error, the call fails
\* with that error, returns no data, and the store is as it was.
C7_OtherWriteErrorPropagates ==
  [][\A c \in CallIds :
       (Answered(c) /\ calls'[c].write \notin {"none", "ok", "QuotaExceededError"})
       => (/\ calls'[c].outcome = "threw"
           /\ calls'[c].error = calls'[c].write
           /\ calls'[c].result = "none"
           /\ store' = store)]_vars

\* a call failed with the error of its write and the store still holds strings
C7_Witness ==
  \E c \in CallIds :
    /\ Threw(c) /\ calls[c].write = "SecurityError" /\ calls[c].error = "SecurityError"
    /\ store["k2"] # Absent /\ store["googleToken"] # Absent

\* C8: after purgeCache no key holds a string with a parseable expiresAt at or
\* before the time of the purge; every such key present before is removed.
C8_PurgeRemovesExpired ==
  [][Purged =>
       \A k \in Keys :
         /\ ~(store'[k].shape \in {"entry", "nodata"} /\ store'[k].expiresAt <= now)
         /\ (store[k].shape \in {"entry", "nodata"} /\ store[k].expiresAt <= now)
              => store'[k] = Absent]_vars

\* a purge ran at the very expiresAt of the entry under k1 and removed it
C8_Witness ==
  /\ Len(purgeLog) = 1
  /\ purgeLog[1].removed = {"k1"}
  /\ purgeLog[1].time = 1
  /\ store["k1"] = Absent

\* C9: purgeCache leaves every malformed string, every entry whose expiresAt is
\* in the future and every settings key as it was, and raises no error.
C9_PurgeFrame ==
  [][Purged =>
       /\ ~purgeLog'[Len(purgeLog')].threw
       /\ \A k \in Keys :
            (\/ store[k].shape \in MalformedShapes
             \/ (store[k].shape \in {"entry", "nodata"} /\ now < store[k].expiresAt)
             \/ k \in SettingKeys)
            => store'[k] = store[k]]_vars

\* a purge ran over a store holding a malformed string, an entry of the
\* future and the settings keys, and they are all still there
C9_Witness ==
  /\ Len(purgeLog) = 1
  /\ ~purgeLog[1].threw
  /\ \A c \in CallIds : calls[c].pc = "idle"
  /\ otherWrites = 0
  /\ store["k1"] = Entry(1, "d0") /\ purgeLog[1].time = 0
  /\ store["k2"].shape = "nonobject"
  /\ \A k \in SettingKeys : store[k] # Absent


\* the action applied in this step
Applied(type) == nActions' = nActions + 1 /\ lastAction'.type = type
\* indices of the entries of email in a list of events
EntriesOf(evs, email) == {i \in 1..Len(evs) : evs[i].personEmail = email}

\* C10: ADD_PERSON_EVENT with a workingLocation event (start, end, location),
\* applied to a State with no entry for the email, gives exactly one entry
\* (d, email, location) for every date d with start <= d < end and no other
\* entry for the email; none at all when end <= start.
C10_EventExpansion ==
  [][(/\ Applied("ADD_PERSON_EVENT")
      /\ lastAction'.calendarEvent.eventType = "workingLocation"
      /\ lastAction'.calendarEvent.wlp \notin {"missing", "noType"}
      /\ EntriesOf(state.events, lastAction'.email) = {})
     => LET email == lastAction'.email
            ev == lastAction'.calendarEvent
            s == PlainDateFrom(ev.start)
            e == PlainDateFrom(ev.end)
            mine == EntriesOf(state'.events, email)
        IN /\ reducerError' = "none"
           /\ \A d \in 1..Len(Calendar) :
                Cardinality({i \in mine : state'.events[i].date = Calendar[d]})
                  = IF s <= d /\ d < e THEN 1 ELSE 0
           /\ \A i \in mine : state'.events[i].location = ev.wlp
           /\ Cardinality(mine) = IF s < e THEN e - s ELSE 0
           /\ Len(state'.events) = Len(state.events) + Cardinality(mine)]_vars

\* the event 2024-01-01..2024-01-04 homeOffice gave exactly the three entries
\* of 01-01, 01-02 and 01-03
C10_Witness ==
  /\ lastAction = [type |-> "ADD_PERSON_EVENT", email |-> "a@x",
                   calendarEvent |-> WorkingLocationEvent("2024-01-01", "2024-01-04", "homeOffice")]
  /\ state.events =
       <<[date |-> "2024-01-01", personEmail |-> "a@x", location |-> "homeOffice"],
         [date |-> "2024-01-02", personEmail |-> "a@x", location |-> "homeOffice"],
         [date |-> "2024-01-03", personEmail |-> "a@x", location |-> "homeOffice"]>>


\* indices of the entries of (date, email) in a list of events
EntriesAt(evs, date, email) ==
  {i \in 1..Len(evs) : evs[i].date = date /\ evs[i].personEmail = email}
\* a workingLocation event is applied in this step and the reducer returns
AppliedWorkingLocation ==
  /\ Applied("ADD_PERSON_EVENT")
  /\ lastAction'.calendarEvent.eventType = "workingLocation"
  /\ reducerError' = "none"
\* date d lies in the range of the workingLocation event ev
Covers(ev, d) == PlainDateFrom(ev.start) <= d /\ d < PlainDateFrom(ev.end)

\* C11: in every reachable State, events holds at most one entry for each
\* (date, personEmail) pair.
C11_UniqueKey ==
  \A i, j \in 1..Len(state.events) :
    (state.events[i].date = state.events[j].date
       /\ state.events[i].personEmail = state.events[j].personEmail) => i = j

\* two events for the same person over the same date were applied and the
\* date has one entry
C11_Witness ==
  /\ nActions = 2
  /\ lastAction.type = "ADD_PERSON_EVENT"
  /\ lastAction.calendarEvent = WorkingLocationEvent("2024-01-01", "2024-01-03", "officeLocation")
  /\ Len(state.events) = 2
  /\ prior.events # <<>>
  /\ \A i \in 1..2 : state.events[i].personEmail = lastAction.email

\* C12: a workingLocation event keeps every entry there was, in place, with
\* its date and email; the location of an entry whose (date, email) its range
\* covers becomes the event's location (unknown when it carries no type) and
\* the location of every other entry stays; it appends one entry with its
\* location for each covered date that had none, and nothing else. So the
\* entry of a key carries the location of the last event applied that covers
\* it, and an event over keys already present leaves the number of entries.
C12_LastAppliedWins ==
  [][AppliedWorkingLocation =>
       LET ev == lastAction'.calendarEvent
           em == lastAction'.email
           s == PlainDateFrom(ev.start)
           e == PlainDateFrom(ev.end)
           expected == IF ev.wlp = "noType" THEN "unknown" ELSE ev.wlp
           old == state.events
           new == state'.events
           n == Len(old)
           covered == {Calendar[d] : d \in s..(e - 1)}
       IN /\ Len(new) >= n
          /\ \A i \in 1..n :
               /\ new[i].date = old[i].date
               /\ new[i].personEmail = old[i].personEmail
               /\ new[i].location =
                    IF old[i].personEmail = em /\ old[i].date \in covered
                    THEN expected ELSE old[i].location
          /\ \A i \in (n + 1)..Len(new) :
               /\ new[i].personEmail = em
               /\ new[i].date \in covered
               /\ new[i].location = expected
               /\ \A j \in 1..Len(new) :
                    (new[j].personEmail = em /\ new[j].date = new[i].date) => j = i
          /\ \A date \in covered :
               \E i \in 1..Len(new) : new[i].personEmail = em /\ new[i].date = date]_vars

\* the three-day homeOffice event, then an officeLocation event over
\* 2024-01-02: three entries, 2024-01-02 now officeLocation
C12_Witness ==
  /\ nActions = 2
  /\ lastAction = [type |-> "ADD_PERSON_EVENT", email |-> "a@x",
                   calendarEvent |-> WorkingLocationEvent("2024-01-02", "2024-01-03", "officeLocation")]
  /\ state.events =
       <<[date |-> "2024-01-01", personEmail |-> "a@x", location |-> "homeOffice"],
         [date |-> "2024-01-02", personEmail |-> "a@x", location |-> "officeLocation"],
         [date |-> "2024-01-03", personEmail |-> "a@x", location |-> "homeOffice"]>>

\* C13 as stated: after an action the State value the reducer was given is
\* what it was before the action.
C13_PriorStateUntouched ==
  [][nActions' = nActions + 1 => prior' = state]_vars

\* C14: DISCOVERED_PERSON for an email already in people returns the State it
\* was given; for a new email it appends one Person and changes nothing else;
\* the emails of people are pairwise distinct in every reachable State.
C14_DiscoveryDedup ==
  /\ [](\A i, j \in 1..Len(state.people) :
          state.people[i].email = state.people[j].email => i = j)
  /\ [][Applied("DISCOVERED_PERSON") =>
          IF \E i \in 1..Len(state.people) : state.people[i].email = lastAction'.email
          THEN state' = state
          ELSE /\ state'.people = state.people \o
                    <<[email |-> lastAction'.email, name |-> lastAction'.name]>>
               /\ state'.events = state.events
               /\ state'.ignorePeople = state.ignorePeople
               /\ state'.assumedLocation = state.assumedLocation]_vars

\* DISCOVERED_PERSON was dispatched twice for a@x, with two names: one person,
\* under the first name
C14_Witness ==
  /\ nActions = 2
  /\ lastAction = [type |-> "DISCOVERED_PERSON", email |-> "a@x", name |-> "Bo"]
  /\ state.people = <<[email |-> "a@x", name |-> "Ann"]>>

\* C15 as stated: a workingLocation event without workingLocationProperties,
\* or without a type in it, is applied without an error and every date of its
\* range has an entry with location unknown.
C15_AbsentLocationIsUnknown ==
  [][(/\ Applied("ADD_PERSON_EVENT")
      /\ lastAction'.calendarEvent.eventType = "workingLocation"
      /\ lastAction'.calendarEvent.wlp \in {"missing", "noType"})
     => /\ reducerError' = "none"
        /\ \A d \in 1..Len(Calendar) :
             Covers(lastAction'.calendarEvent, d) =>
               \E i \in EntriesAt(state'.events, Calendar[d], lastAction'.email) :
                 state'.events[i].location = "unknown"]_vars

\* C16 as stated: the location of every entry of events is officeLocation,
\* homeOffice or unknown.
C16_LocationInEnum ==
  \A i \in 1..Len(state.events) : state.events[i].location \in WorkLocations

\* C17: ADD_PERSON_EVENT with an event that is not a workingLocation event
\* returns the State it was given.
C17_OtherKindNoOp ==
  [][(Applied("ADD_PERSON_EVENT")
        /\ lastAction'.calendarEvent.eventType # "workingLocation")
     => (state' = state /\ reducerError' = "none")]_vars

\* an outOfOffice event was applied to a State that has an entry
C17_Witness ==
  /\ nActions = 2
  /\ lastAction.type = "ADD_PERSON_EVENT"
  /\ lastAction.calendarEvent = OtherEvent("outOfOffice")
  /\ Len(state.events) = 1
  /\ state.events[1].personEmail = lastAction.email

\* C18: UPDATE_IGNORE_STATE(email, ignored) leaves email out of ignorePeople
\* when ignored is true and in it when ignored is false; the membership of
\* every other email, people, events and assumedLocation are unchanged.
C18_IgnorePolarity ==
  [][Applied("UPDATE_IGNORE_STATE") =>
       /\ (lastAction'.email \in state'.ignorePeople) = ~lastAction'.ignored
       /\ state'.ignorePeople \ {lastAction'.email} = state.ignorePeople \ {lastAction'.email}
       /\ state'.people = state.people
       /\ state'.events = state.events
       /\ state'.assumedLocation = state.assumedLocation]_vars

\* b@x was added to an ignore list that held a@x, then a@x was taken out
\* with ignored = true
C18_Witness ==
  /\ nActions = 2
  /\ lastAction = [ignored |-> TRUE, type |-> "UPDATE_IGNORE_STATE", email |-> "a@x"]
  /\ state.ignorePeople = {"b@x"}
  /\ prior.ignorePeople = {"a@x", "b@x"}

\* C19: UPDATE_PREFERRED_LOCATION(location) sets assumedLocation to location
\* and leaves people, ignorePeople and events unchanged.
C19_PreferredLocation ==
  [][Applied("UPDATE_PREFERRED_LOCATION") =>
       /\ state'.assumedLocation = lastAction'.location
       /\ state'.people = state.people
       /\ state'.ignorePeople = state.ignorePeople
       /\ state'.events = state.events]_vars

\* the assumed location was replaced in a State with an ignore list
C19_Witness ==
  /\ lastAction = [type |-> "UPDATE_PREFERRED_LOCATION", location |-> "officeLocation"]
  /\ state.assumedLocation = "officeLocation"
  /\ prior.assumedLocation = "homeOffice"
  /\ state.ignorePeople = {"a@x"}

\* calendar facts about day numbers, day 1 being a Monday
IsSaturday(d) == d % 7 = 6
IsSunday(d) == d % 7 = 0
IsWeekend(d) == IsSaturday(d) \/ IsSunday(d)
\* the first Monday after d
FollowingMonday(d) == CHOOSE m \in (d + 1)..(d + 7) : m % 7 = 1
\* the first date after d that is not a Saturday or a Sunday
NextWorkingDayAfter(d) == CHOOSE m \in (d + 1)..(d + 3) :
  ~IsWeekend(m) /\ \A k \in (d + 1)..(m - 1) : IsWeekend(k)
\* the last date before d that is not a Saturday or a Sunday
WorkingDayBefore(d) == CHOOSE m \in (d - 3)..(d - 1) :
  ~IsWeekend(m) /\ \A k \in (m + 1)..(d - 1) : IsWeekend(k)
\* nextWorkingDay of the contract
NextWorkingDay(d) == IF IsWeekend(d) THEN FollowingMonday(d) ELSE d

\* C21 as stated: workingDate of a Saturday or a Sunday is the following
\* Monday, workingDate of any other date is the date, and the result is never
\* a Saturday or a Sunday (here for workingDate(today), the window's first
\* element).
C21_NextWorkingDay ==
  (wpc = "loop" /\ Len(days) = 1) =>
    (days[1] = NextWorkingDay(today) /\ ~IsWeekend(days[1]))

\* C22 as stated: whatever today is, the window Hoozin builds has exactly 5
\* dates, is strictly ascending and holds no Saturday and no Sunday.
C22_WindowOfWorkingDays ==
  wpc = "done" =>
    /\ Len(days) = 5
    /\ \A i \in 1..(Len(days) - 1) : days[i] < days[i + 1]
    /\ \A i \in 1..Len(days) : ~IsWeekend(days[i])

\* C23 as stated: the window's last date is nextWorkingDay(today) and each
\* other date is the working day immediately before the one after it.
C23_Original ==
  wpc = "done" =>
    /\ days[Len(days)] = NextWorkingDay(today)
    /\ \A i \in 1..(Len(days) - 1) : days[i] = WorkingDayBefore(days[i + 1])

\* C23: the window begins at workingDate(today): its first (earliest) date is
\* workingDate(today) and each later date is the first date after the one
\* before it that is not a Saturday or a Sunday, so it walks forward one
\* calendar day at a time and skips weekend days.
C23_WindowWalksForward ==
  wpc = "done" =>
    /\ Len(days) = WindowSize
    /\ days[1] = workingDate(today)
    /\ \A i \in 1..(Len(days) - 1) : days[i + 1] = NextWorkingDayAfter(days[i])

\* today is a Thursday: the window crosses a weekend
C23_Witness ==
  /\ wpc = "done"
  /\ today = 4
  /\ days = <<4, 5, 8, 9, 10>>

\* the calendar names of the example, in its order
ExampleCalendars ==
  <<<<"H", "Q", " ", "-", " ", "R", "o", "o", "m", " ", "A", " ", "(", "4", ")">>,
    <<"H", "Q", " ", "-", " ", "R", "o", "o", "m", " ", "B", " ", "(", "8", ")">>,
    <<"H", "Q", " ", "-", " ", "R", "o", "o", "m", " ", "C">>>>

\* C24 as stated: for the three example names the rooms are named "Room A",
\* "Room B", "Room C", with maxAttendance 4, 8 and absent.
C24_Original ==
  (rpc = "done" /\ calendars = ExampleCalendars) =>
    rooms = <<[name |-> <<"R", "o", "o", "m", " ", "A">>, maxAttendance |-> {4}],
              [name |-> <<"R", "o", "o", "m", " ", "B">>, maxAttendance |-> {8}],
              [name |-> <<"R", "o", "o", "m", " ", "C">>, maxAttendance |-> {}]>>

\* C24: for the three example names the rooms are named "A", "B", "C", with
\* maxAttendance 4, 8 and absent: the names share "HQ - Room ", and all of it
\* is stripped.
C24_PrefixExample ==
  (rpc = "done" /\ calendars = ExampleCalendars) =>
    rooms = <<[name |-> <<"A">>, maxAttendance |-> {4}],
              [name |-> <<"B">>, maxAttendance |-> {8}],
              [name |-> <<"C">>, maxAttendance |-> {}]>>

\* fetchWazzupData has returned the rooms of the example
C24_Witness ==
  /\ rpc = "done"
  /\ calendars = ExampleCalendars
  /\ Len(rooms) = 3

\* the longest sequence every name of names begins with
LongestCommonLeading(names) ==
  LET common(k) == \A i \in 1..Len(names) :
                     Len(names[i]) >= k /\ SubSeq(names[i], 1, k) = SubSeq(names[1], 1, k)
      k == CHOOSE n \in 0..Len(names[1]) :
             common(n) /\ \A m \in (n + 1)..Len(names[1]) : ~common(m)
  IN SubSeq(names[1], 1, k)
\* str without its trailing run of characters of the set chars
WithoutTrailingRun(str, chars) ==
  LET k == CHOOSE n \in 0..Len(str) :
             /\ \A j \in (n + 1)..Len(str) : str[j] \in chars
             /\ n > 0 => str[n] \notin chars
  IN SubSeq(str, 1, k)
\* str without its leading run of characters of the set chars
WithoutLeadingRun(str, chars) ==
  LET k == CHOOSE n \in 0..Len(str) :
             /\ \A j \in 1..n : str[j] \in chars
             /\ n < Len(str) => str[n + 1] \notin chars
  IN SubSeq(str, k + 1, Len(str))
\* characters of the alphabet of names that are no letter, digit or hyphen
PrefixJunk == {" ", "(", ")"}
\* the prefix of the rule: nothing with one room or a prefix shorter than 3
RulePrefix(names) ==
  IF Len(names) > 1
  THEN LET prefix == WithoutTrailingRun(LongestCommonLeading(names), PrefixJunk)
       IN IF Len(prefix) >= 3 THEN prefix ELSE <<>>
  ELSE <<>>
\* the prefix step is taken in this step
PrefixStep == rpc = "prefix" /\ rpc' = "done"
\* the names of the rooms before the step
NamesBefore == [i \in 1..Len(rooms) |-> rooms[i].name]

\* C25 as stated: the prefix of the rule, when there is one, is stripped with
\* the whitespace that follows it from every name beginning with it, and no
\* name is changed otherwise.
C25_Original ==
  [][PrefixStep =>
       LET prefix == RulePrefix(NamesBefore)
       IN /\ Len(rooms') = Len(rooms)
          /\ \A i \in 1..Len(rooms) :
               rooms'[i].name =
                 IF prefix # <<>> /\ SubSeq(rooms[i].name, 1, Len(prefix)) = prefix
                 THEN WithoutLeadingRun(
                        SubSeq(rooms[i].name, Len(prefix) + 1, Len(rooms[i].name)), Whitespace)
                 ELSE rooms[i].name]_vars

\* C25: with more than one room, the prefix is the longest common leading
\* substring of all room names without its trailing run of characters other
\* than letters, digits and hyphen; if its length is at least 3, every name
\* beginning with it becomes what follows the prefix, without the whitespace at
\* either end of that; if its length is below 3, or there is one room, no name
\* is changed. maxAttendance is never changed.
C25_PrefixRule ==
  [][PrefixStep =>
       LET prefix == RulePrefix(NamesBefore)
       IN /\ Len(rooms') = Len(rooms)
          /\ \A i \in 1..Len(rooms) :
               /\ rooms'[i].maxAttendance = rooms[i].maxAttendance
               /\ rooms'[i].name =
                    IF prefix # <<>> /\ SubSeq(rooms[i].name, 1, Len(prefix)) = prefix
                    THEN WithoutTrailingRun(
                           WithoutLeadingRun(
                             SubSeq(rooms[i].name, Len(prefix) + 1, Len(rooms[i].name)),
                             Whitespace),
                           Whitespace)
                    ELSE rooms[i].name]_vars

\* "HQ - Den " and "HQ - Room C" were stripped of "HQ -"
C25_Witness ==
  /\ rpc = "done"
  /\ calendars = <<<<"H", "Q", " ", "-", " ", "D", "e", "n", " ">>,
                   <<"H", "Q", " ", "-", " ", "R", "o", "o", "m", " ", "C">>>>
  /\ rooms[1].name = <<"D", "e", "n">>
  /\ rooms[2].name = <<"R", "o", "o", "m", " ", "C">>

\* C26 as stated: before the prefix step, a room whose calendar name ends in
\* "(<integer>)" has that integer as maxAttendance and the name without the
\* annotation and the whitespace around it; a room whose calendar name has no
\* annotation has no maxAttendance and the calendar's name.
C26_CapacityAnnotation ==
  rpc \in {"items", "prefix"} =>
    \A i \in 1..Len(rooms) :
      LET name == calendars[i]
          open == MatchAnnotation(name)
      IN IF open > 0
         THEN /\ rooms[i].maxAttendance = {parseInt(SubSeq(name, open + 1, Len(name) - 1))}
              /\ rooms[i].name =
                   WithoutTrailingRun(
                     WithoutLeadingRun(SubSeq(name, 1, open - 1), Whitespace), Whitespace)
         ELSE /\ rooms[i].maxAttendance = {}
              /\ rooms[i].name = name

\* the entry has an email address flagged primary
HasPrimaryEmail(person) ==
  \E k \in 1..Len(person.emailAddresses) : person.emailAddresses[k].primary
\* the entry has a name flagged primary
HasPrimaryName(person) == \E k \in 1..Len(person.names) : person.names[k].primary
\* the first value flagged primary
FlaggedEmail(person) ==
  person.emailAddresses[CHOOSE k \in 1..Len(person.emailAddresses) :
    /\ person.emailAddresses[k].primary
    /\ \A l \in 1..(k - 1) : ~person.emailAddresses[l].primary].value
FlaggedName(person) ==
  person.names[CHOOSE k \in 1..Len(person.names) :
    /\ person.names[k].primary
    /\ \A l \in 1..(k - 1) : ~person.names[l].primary].displayName
\* the last element of a non-empty sequence
Last(seq) == seq[Len(seq)]

\* C27: from the step in which a call of the pass fails on, the pass issues
\* no request and dispatches no action, and the State of the reducer stays
\* what the actions dispatched before the failure folded to.
C27_FailureStopsPass ==
  [][(failures > 0 \/ failures' > failures) =>
       /\ requests' = requests
       /\ dispatched' = dispatched
       /\ state' = state
       /\ nActions' = nActions]_vars

\* the calendar call of the second person failed after the first person's
\* events were folded
C27_Witness ==
  /\ failures = 1
  /\ pass.pc = "failed"
  /\ Len(requests) = 3
  /\ Len(dispatched) = 4
  /\ Len(state.events) = 2
  /\ Len(state.people) = 2

\* C28: the turn of an entry without an email flagged primary dispatches
\* nothing, issues no request and goes on to the next entry without failing;
\* the turn of an entry with one dispatches DISCOVERED_PERSON with that email
\* and with the name flagged primary, or with the email as name when no name is
\* flagged; every calendar request is for the primary email of an entry.
C28_PrimaryEmailAndName ==
  /\ [][(pass.pc = "person" /\ pass.i <= Len(pass.people) /\ pass' # pass) =>
          LET person == pass.people[pass.i]
          IN IF ~HasPrimaryEmail(person)
             THEN /\ dispatched' = dispatched
                  /\ requests' = requests
                  /\ failures' = failures
                  /\ state' = state
                  /\ pass' = [pass EXCEPT !.i = pass.i + 1]
             ELSE /\ Len(dispatched') = Len(dispatched) + 1
                  /\ Last(dispatched') =
                       [type |-> "DISCOVERED_PERSON", email |-> FlaggedEmail(person),
                        name |-> IF HasPrimaryName(person) THEN FlaggedName(person)
                                 ELSE FlaggedEmail(person)]]_vars
  /\ [](\A r \in 1..Len(requests) :
          \/ requests[r] = "directory"
          \/ \E k \in 1..Len(pass.people) :
               HasPrimaryEmail(pass.people[k]) /\ requests[r] = FlaggedEmail(pass.people[k]))

\* the entry without primary email was passed over and the next one, which
\* has no primary name, was discovered under its email
C28_Witness ==
  /\ pass.pc = "done"
  /\ Len(pass.people) = 2
  /\ ~HasPrimaryEmail(pass.people[1])
  /\ requests = <<"directory", "b@x">>
  /\ dispatched = <<[type |-> "DISCOVERED_PERSON", email |-> "b@x", name |-> "b@x"]>>

\* the entries of the directory response that are discovered, in order
Discoverable == SelectSeq(pass.people, HasPrimaryEmail)
RECURSIVE AddActions(_, _)
\* one ADD_PERSON_EVENT for each item, in the order of the response
AddActions(email, itemList) ==
  IF itemList = <<>> THEN <<>>
  ELSE <<[type |-> "ADD_PERSON_EVENT", email |-> email, calendarEvent |-> Head(itemList)]>>
         \o AddActions(email, Tail(itemList))
RECURSIVE ExpectedLog(_)
\* what the first k discovered persons contribute: for each, its
\* DISCOVERED_PERSON and then the actions of its calendar response, when
\* there is one
ExpectedLog(k) ==
  IF k = 0 THEN <<>>
  ELSE ExpectedLog(k - 1)
         \o <<[type |-> "DISCOVERED_PERSON", email |-> FlaggedEmail(Discoverable[k]),
               name |-> IF HasPrimaryName(Discoverable[k]) THEN FlaggedName(Discoverable[k])
                        ELSE FlaggedEmail(Discoverable[k])]>>
         \o (IF k <= Len(responses)
             THEN AddActions(FlaggedEmail(Discoverable[k]), responses[k]) ELSE <<>>)
\* the longest log the pass can have dispatched by now
ExpectedSoFar ==
  ExpectedLog(IF Len(Discoverable) <= Len(responses) THEN Len(Discoverable)
              ELSE Len(responses) + 1)

\* C29: the pass never has two requests in flight; what it has dispatched is
\* always a leading part of the actions of its responses in the order they
\* resolved, each person's DISCOVERED_PERSON followed by its events in item
\* order; when it issues a request no other is in flight and every action of
\* the earlier responses has been dispatched; each dispatch is one
\* application of the reducer to that action.
C29_OneAtATimeInOrder ==
  /\ [](inflight <= 1)
  /\ [](/\ Len(dispatched) <= Len(ExpectedSoFar)
        /\ dispatched = SubSeq(ExpectedSoFar, 1, Len(dispatched)))
  /\ [][requests' # requests =>
          /\ inflight = 0
          /\ Len(requests') = Len(requests) + 1
          /\ dispatched = ExpectedSoFar]_vars
  /\ [][dispatched' # dispatched =>
          /\ Len(dispatched') = Len(dispatched) + 1
          /\ SubSeq(dispatched', 1, Len(dispatched)) = dispatched
          /\ nActions' = nActions + 1
          /\ lastAction' = Last(dispatched')
          /\ state' = stateReducer(state, Last(dispatched'))]_vars

\* a pass over two persons with two events each has returned
C29_Witness ==
  /\ pass.pc = "done"
  /\ Len(requests) = 3
  /\ Len(dispatched) = 6
  /\ responses[1][1] # responses[1][2]
  /\ nActions = 6

\* the two spellings name one URL: the same scheme and host whatever the
\* case, the same port once the default of https is filled in, the same path
\* with the empty path read as "/"
SameURL(r1, r2) ==
  LET port(r) == IF r.port = "" THEN "443" ELSE r.port
      path(r) == IF r.path = "" THEN "/" ELSE r.path
      fold(str) == IF str \in {"https", "HTTPS"} THEN "https"
                   ELSE IF str \in {"content.googleapis.com", "Content.GoogleAPIs.com"}
                        THEN "content.googleapis.com" ELSE str
  IN /\ fold(r1.scheme) = fold(r2.scheme)
     /\ fold(r1.host) = fold(r2.host)
     /\ port(r1) = port(r2)
     /\ path(r1) = path(r2)
\* the calls that have computed their key
Keyed == {c \in KeyCallIds : kcalls[c].pc \in {"hit", "fetching", "written"}}

\* C30: two calls given the same URL compute the same cache key, the digest
\* of the URL string followed by V2, and calls given different URLs compute
\* different keys; so, however the calls interleave, calls for one URL leave
\* at most one entry, under that key, and every entry is under the key of the
\* call that wrote it.
C30_OneKeyPerURL ==
  /\ \A c \in Keyed : kcalls[c].key = "sha256(" \o kcalls[c].href \o "V2)"
  /\ \A c1, c2 \in Keyed :
       SameURL(kcalls[c1].raw, kcalls[c2].raw) <=> kcalls[c1].key = kcalls[c2].key
  /\ \A e \in keyStore : e.by \in Keyed /\ e.key = kcalls[e.by].key
  /\ \A e1, e2 \in keyStore : e1.key = e2.key => e1 = e2
  /\ (\A c1, c2 \in Keyed : SameURL(kcalls[c1].raw, kcalls[c2].raw))
       => Cardinality(keyStore) <= 1

\* both calls were in flight for one URL spelt in two ways, both wrote, and
\* there is one entry
C30_Witness ==
  /\ \A c \in KeyCallIds : kcalls[c].pc = "written"
  /\ kcalls[1].raw # kcalls[2].raw
  /\ SameURL(kcalls[1].raw, kcalls[2].raw)
  /\ Cardinality(keyStore) = 1

\* ------------------------------------------------------------------ C31
LegacyAnswered(c) == v1calls[c].pc = "fetching" /\ v1calls'[c].pc = "done"

\* C31: in the earlier fetchWithCache, a call answered with HTTP 401 (whose
\* body response.json() could read) caches nothing, clears the stored
\* credential and the token, and fails to its caller instead of returning the
\* response payload.
C31_LegacyUnauthorizedFails ==
  [][\A c \in CallIds :
       (LegacyAnswered(c) /\ v1calls'[c].status = 401 /\ v1calls'[c].error # "SyntaxError") =>
          /\ \A k \in LegacyCacheKeys : v1store'[k] = v1store[k]
          /\ v1store'["googleToken"] = "absent"
          /\ v1token' = "null"
          /\ v1calls'[c].outcome = "threw"]_vars

\* ------------------------------------------------------------------ C32
Known(people, email) == \E i \in 1..Len(people) : people[i].email = email

Midway(r) == runs[r].pc \in {"awaitCalendar", "items"}

\* C32: whenever a run of fetchHoozinData has an ADD_PERSON_EVENT applied, the
\* State already holds a Person with that email (its DISCOVERED_PERSON came
\* first), and in every State that overlapping runs produce, the personEmail
\* of every entry of events is the email of some Person of people.
C32_EventsHaveDiscoveredOwner ==
  [][/\ Applied("ADD_PERSON_EVENT") => Known(state.people, lastAction'.email)
     /\ \A i \in 1..Len(state'.events) :
          Known(state'.people, state'.events[i].personEmail)]_vars

\* two runs are between their discovery and their last item at the same time,
\* on different persons, and entries of both are in events
C32_Witness ==
  /\ Midway(1) /\ Midway(2)
  /\ PrimaryEmail(runs[1].people[runs[1].i]) # PrimaryEmail(runs[2].people[runs[2].i])
  /\ \A r \in DOMAIN runs :
       \E i \in 1..Len(state.events) :
          state.events[i].personEmail = PrimaryEmail(runs[r].people[runs[r].i])

\* ------------------------------------------------------------------ C33
Started(c) == calls[c].pc = "idle" /\ calls'[c].pc # "idle"

\* the store holds no fresh entry under k: nothing, or an entry past its expiresAt
NoFreshEntry(k) ==
  \/ store[k] = Absent
  \/ store[k].shape = "entry" /\ now >= store[k].expiresAt

C34_RepeatedPassFromCache ==
  \A i \in 1..Len(wnet) :
     wnet[i].pass = 2 =>
        \E j \in 1..Len(wnet) : wnet[j].pass = 1 /\ wnet[i].at >= wnet[j].at + TTL

\* ------------------------------------------------------------------ C35
\* the bodies of the responses to the followed calls that are not a success
ErrorBodies == {Body(c, status) : c \in CallIds, status \in Statuses \ {200}}

\* C35: only successful upstream responses are persisted: no entry under a
\* cache key holds the body of a response whose status was not a success, and
\* no call served from the cache returns such a body.
C35_OnlySuccessPersisted ==
  /\ \A k \in CacheKeys : store[k].shape = "entry" => store[k].data \notin ErrorBodies
  /\ \A c \in CallIds : (Returned(c) /\ calls[c].fetches = 0) => calls[c].result \notin ErrorBodies

\* ------------------------------------------------------------------ C36
\* C36: the quota branch of cacheFetch leaves no key but preferredLocation in
\* the store: the cache keys, googleToken, loginHint and ignorePeople are all
\* removed; preferredLocation is put back only when it held a non-empty
\* string; the token and the State in memory are as before.
C36_EvictionRemovesSettings ==
  [][\A c \in CallIds :
       (Answered(c) /\ calls'[c].write = "QuotaExceededError") =>
          /\ \A k \in Keys \ {"preferredLocation"} : store'[k] = Absent
          /\ store'["preferredLocation"] =
               IF Truthy(store["preferredLocation"]) THEN store["preferredLocation"] ELSE Absent
          /\ token' = token
          /\ state' = state]_vars

\* a call hit the quota in a session whose store held the credential, the
\* login hint and the ignore list: all three are gone, preferredLocation is
\* kept, and the session still holds its token
C36_Witness ==
  \E c \in CallIds :
    /\ Returned(c) /\ calls[c].write = "QuotaExceededError"
    /\ otherWrites = 0
    /\ \A k \in {"googleToken", "loginHint", "ignorePeople"} : store[k] = Absent
    /\ Truthy(store["preferredLocation"])
    /\ token = "tok"

\* ------------------------------------------------------------------ C37
IsPrefix(short, long) ==
  Len(short) <= Len(long) /\ SubSeq(long, 1, Len(short)) = short

\* C37: State.people is in discovery order: a step in which the reducer is not
\* applied (such as opening or closing the settings dialog) leaves people as
\* it is, and an application of the reducer only appends to it.
C37_PeopleInDiscoveryOrder ==
  [][/\ nActions' = nActions => state'.people = state.people
     /\ nActions' = nActions + 1 => IsPrefix(state.people, state'.people)]_vars

\* ------------------------------------------------------------------ C38
IsInk(ch) == ch \notin Whitespace
\* str without its whitespace
Ink(str) == SelectSeq(str, IsInk)

\* C38 as stated: after the prefix step every room with a non-empty calendar
\* name has a non-empty name, and two rooms whose names differed before the
\* step have names that differ after it.
C38_Original ==
  [][PrefixStep =>
       /\ \A i \in 1..Len(rooms) : calendars[i] # <<>> => rooms'[i].name # <<>>
       /\ \A i \in 1..Len(rooms), j \in 1..Len(rooms) :
            rooms[i].name # rooms[j].name => rooms'[i].name # rooms'[j].name]_vars

\* C38 as amended: a room whose name was non-empty before the prefix step has
\* an empty name after it only when that name, without its trailing
\* whitespace, is a leading part of the name of every room; and two rooms
\* whose names differed in more than whitespace before the step have names
\* that differ after it.
C38_NamesAfterPrefixStep ==
  [][PrefixStep =>
       /\ \A i \in 1..Len(rooms) :
            (rooms[i].name # <<>> /\ rooms'[i].name = <<>>) =>
               \A j \in 1..Len(rooms) :
                  IsPrefix(WithoutTrailingRun(rooms[i].name, Whitespace), rooms[j].name)
       /\ \A i \in 1..Len(rooms), j \in 1..Len(rooms) :
            Ink(rooms[i].name) # Ink(rooms[j].name) => rooms'[i].name # rooms'[j].name]_vars

\* "HQ - Room", "HQ - Room A (4)" and "HQ - Room C" were stripped of
\* "HQ - Room": the first room is left without a name, the others are "A", "C"
C38_Witness ==
  /\ rpc = "done"
  /\ Len(rooms) = 3
  /\ calendars[1] = <<"H", "Q", " ", "-", " ", "R", "o", "o", "m">>
  /\ rooms[1].name = <<>>
  /\ rooms[2].name = <<"A">>
  /\ rooms[3].name = <<"C">>

\* ------------------------------------------------------------------ C39
\* C39: a pass none of whose calls fails terminates: eventually fetchHoozinData
\* has returned, and by then it has received one calendar response for every
\* directory entry with a primary email and has dispatched, in response
\* order, one DISCOVERED_PERSON for each such entry and one ADD_PERSON_EVENT
\* for each item of its response; every one of these actions has been applied
\* by the reducer, whose date expansion ended for every start and end.
C39_PassTerminates ==
  <>(\/ failures > 0
     \/ /\ pass.pc = "done"
        /\ inflight = 0
        /\ Len(responses) = Len(Discoverable)
        /\ dispatched = ExpectedLog(Len(Discoverable))
        /\ nActions = Len(dispatched))

\* a pass has returned without a failure: it skipped an entry without a
\* primary email, and dispatched for the other entry an event that ends
\* before it starts and one that spans two days
C39_Witness ==
  /\ pass.pc = "done"
  /\ failures = 0
  /\ Len(pass.people) = 2 /\ Len(Discoverable) = 1
  /\ Len(responses) = 1
  /\ responses[1] = <<WorkingLocationEvent("2024-01-02", "2024-01-01", "homeOffice"),
                      WorkingLocationEvent("2024-01-01", "2024-01-03", "officeLocation")>>
  /\ Len(dispatched) = 3
  /\ Len(state.events) = 2

====
